---- MODULE Spec2Model ----
(***************************************************************************)
(* Purchase scheduler: the allocation engine (PurchaseScheduler) and the   *)
(* schedule coordinator (ScheduleManager).                                 *)
(*                                                                         *)
(* A JavaScript Date is modelled by its time value counted in ticks, with  *)
(* TicksPerDay ticks to a UTC calendar day.  The textual day key           *)
(* "YYYY-MM-DD" produced by dateToDateString is modelled by the number of  *)
(* the UTC day the tick falls in, which identifies the same calendar day.  *)
(***************************************************************************)
EXTENDS Integers, Sequences, FiniteSets, TLC

(***************************************************************************)
(* Program constants (scheduler.ts)                                        *)
(***************************************************************************)
MAX_PURCHASES_PER_ACCOUNT_PER_DAY == 3
MIN_REVIEW_DELAY_DAYS == 4
MAX_SCHEDULING_ATTEMPT_DAYS == 365

(***************************************************************************)
(* utils.ts                                                                *)
(***************************************************************************)
\* Resolution of a Date inside one UTC day (86,400,000 ms in the program).
TicksPerDay == 2

\* dateToDateString: the UTC year-month-day key of a Date.
dateToDateString(date) == date \div TicksPerDay

\* addDays: setUTCDate(getUTCDate() + days) keeps the time of day.
addDays(date, days) == date + days * TicksPerDay

\* dateStringtoDate, and new Date(str + "T00:00:00.000Z"): UTC midnight of the key.
dateStringtoDate(dateStr) == dateStr * TicksPerDay

(***************************************************************************)
(* Bounds of the model                                                     *)
(***************************************************************************)
NumAccounts == 2
NumBooks == 4
MaxReviews == 5
\* Calendar days 0..MaxDay are the days callers name.
MaxDay == 1
\* Most public calls in one behaviour.
MaxOps == 3
\* Most review requests of one addNewOrders call.
MaxItems == 4

AccountIds == 1..NumAccounts
\* An account id that is in no account list.
UnknownAccount == NumAccounts + 1
BookIds == 1..NumBooks
ReviewIds == 1..MaxReviews
\* A purchase id that no order item carries.
UnknownPurchase == MaxReviews + 1

(***************************************************************************)
(* Array helpers                                                           *)
(***************************************************************************)
\* Insertion of index i into the index list order, sorted by keys, behind
\* every index whose key is not larger: the step of a stable sort.
RECURSIVE InsertStable(_, _, _)
InsertStable(i, order, keys) ==
    IF order = << >> THEN << i >>
    ELSE IF keys[Head(order)] <= keys[i]
         THEN << Head(order) >> \o InsertStable(i, Tail(order), keys)
         ELSE << i >> \o order

\* The indices 1..n of keys in stable ascending order of keys[i].
RECURSIVE StableOrder(_, _)
StableOrder(keys, n) ==
    IF n = 0 THEN << >>
    ELSE InsertStable(n, StableOrder(keys, n - 1), keys)

\* Array.prototype.sort((a, b) => key(a) - key(b)) on array s, where keys[i]
\* is key(s[i]): stable and ascending.
SortByKeys(s, keys) ==
    LET order == StableOrder(keys, Len(s))
    IN [i \in 1..Len(s) |-> s[order[i]]]

(***************************************************************************)
(* scheduler.ts: PurchaseScheduler                                         *)
(*                                                                         *)
(* accountAvailability maps an account id to the set of its unavailable    *)
(* Dates (an account without an entry maps to the empty set).              *)
(*                                                                         *)
(* The run state Map<accountId, Map<dateStr, AccountDailyRunStatus>> is a  *)
(* function on the pairs <<accountId, dateStr>> it holds.  An entry the    *)
(* program creates when it first looks at a pair (count 0, no books,       *)
(* unavailable as the availability says) is read through dailyStatusOf and *)
(* stored once a purchase is counted on it.                                *)
(***************************************************************************)
\* new Map(): the run state a call starts from.
NewRunState == << >>

\* The Dates d with dateToDateString(d) = dateStr.
DatesOfDay(dateStr) ==
    dateStringtoDate(dateStr)..(dateStringtoDate(dateStr + 1) - 1)

\* dates.some(d => dateToDateString(d) === dateToDateString(date))
SomeOnDayOf(dates, date) ==
    \E d \in DatesOfDay(dateToDateString(date)) : d \in dates

\* isAccountUnavailableOnDate with the fault of comparing the Dates
\* themselves (d.getTime() === date.getTime()) instead of their day keys.
isAccountUnavailableOnDate_ExactTime(accountId, date, accountAvailability) ==
    /\ accountId \in DOMAIN accountAvailability
    /\ date \in accountAvailability[accountId]

\* isAccountUnavailableOnDate with the fault of blocking by range: the
\* account is unavailable from its first listed day on.
isAccountUnavailableOnDate_FromDayOn(accountId, date, accountAvailability) ==
    /\ accountId \in DOMAIN accountAvailability
    /\ \E d \in accountAvailability[accountId] :
           dateToDateString(d) <= dateToDateString(date)

isAccountUnavailableOnDate(accountId, date, accountAvailability) ==
    /\ accountId \in DOMAIN accountAvailability
    /\ SomeOnDayOf(accountAvailability[accountId], date)

\* The entry of (accountId, day of date); created on first use.
dailyStatusOf(runState, accountId, date, accountAvailability) ==
    LET key == << accountId, dateToDateString(date) >>
    IN IF key \in DOMAIN runState
       THEN runState[key]
       ELSE [purchaseCount |-> 0,
             booksPurchasedToday |-> {},
             unavailable |-> isAccountUnavailableOnDate(accountId, date,
                                                        accountAvailability)]

\* runState.get(accountId).set(dateStr, status)
PutStatus(runState, accountId, date, status) ==
    LET key == << accountId, dateToDateString(date) >>
    IN [k \in DOMAIN runState \cup {key} |->
           IF k = key THEN status ELSE runState[k]]

\* The count with the fault of a conflict that leaves the entry unavailable.
CountPurchase_KeepFlag(status, bookId) ==
    [purchaseCount |-> status.purchaseCount + 1,
     booksPurchasedToday |-> status.booksPurchasedToday \cup {bookId},
     unavailable |-> status.unavailable]

\* purchaseCount++ and booksPurchasedToday.add(bookId) on an entry.
CountPurchase(status, bookId) ==
    [purchaseCount |-> status.purchaseCount + 1,
     booksPurchasedToday |-> status.booksPurchasedToday \cup {bookId},
     unavailable |-> FALSE]

\* The text of the two warnings the scheduler logs.
ConflictWarning(accountId, date) ==
    [kind |-> "committed_on_unavailable", accountId |-> accountId,
     dateStr |-> dateToDateString(date)]
UnschedulableWarning(task) ==
    [kind |-> "could_not_schedule", reviewId |-> task.reviewId,
     bookId |-> task.bookId]

\* initializeRunState, first loop: every listed account gets a fresh inner
\* Map holding one unavailable entry per unavailable date.  Those entries are
\* what dailyStatusOf reads for a pair that is not stored.
ResetListedAccounts(runState, allAccounts) ==
    LET listed == {allAccounts[i] : i \in 1..Len(allAccounts)}
        kept == {k \in DOMAIN runState : k[1] \notin listed}
    IN [k \in kept |-> runState[k]]

\* initializeRunState, second loop: layer the existing commitments.  st is
\* [runState, warnings].
RECURSIVE LayerCommitments(_, _, _)
LayerCommitments(st, existingCommittedSchedule, accountAvailability) ==
    IF existingCommittedSchedule = << >> THEN st
    ELSE LET purchase == Head(existingCommittedSchedule)
             rest == Tail(existingCommittedSchedule)
         IN IF purchase.status = "missed"
            THEN LayerCommitments(st, rest, accountAvailability)
            ELSE LET dailyStatus == dailyStatusOf(st.runState, purchase.accountId,
                                        purchase.purchaseDate, accountAvailability)
                     warned ==
                         IF dailyStatus.unavailable
                         THEN Append(st.warnings,
                                  ConflictWarning(purchase.accountId,
                                                  purchase.purchaseDate))
                         ELSE st.warnings
                 IN LayerCommitments(
                        [runState |-> PutStatus(st.runState, purchase.accountId,
                                         purchase.purchaseDate,
                                         CountPurchase(dailyStatus, purchase.bookId)),
                         warnings |-> warned],
                        rest, accountAvailability)

initializeRunState(runState, existingCommittedSchedule, accountAvailability, allAccounts) ==
    LayerCommitments([runState |-> ResetListedAccounts(runState, allAccounts),
                      warnings |-> << >>],
                     existingCommittedSchedule, accountAvailability)

\* The constraint checks with the fault of > for >= in the capacity check.
PassesConstraints_OverCapacity(dailyStatus, task) ==
    /\ ~ dailyStatus.unavailable
    /\ ~ (dailyStatus.purchaseCount > MAX_PURCHASES_PER_ACCOUNT_PER_DAY)
    /\ task.bookId \notin dailyStatus.booksPurchasedToday

\* The constraint checks with the fault of a missing same-book check.
PassesConstraints_AnyBook(dailyStatus, task) ==
    /\ ~ dailyStatus.unavailable
    /\ ~ (dailyStatus.purchaseCount >= MAX_PURCHASES_PER_ACCOUNT_PER_DAY)

\* The constraint checks of one account on one day (lines 443-447).
PassesConstraints(dailyStatus, task) ==
    /\ ~ dailyStatus.unavailable
    /\ ~ (dailyStatus.purchaseCount >= MAX_PURCHASES_PER_ACCOUNT_PER_DAY)
    /\ task.bookId \notin dailyStatus.booksPurchasedToday

\* potentialSlotsThisDay: the accounts passing the checks, in list order,
\* each with its current load.
RECURSIVE potentialSlotsThisDay(_, _, _, _, _)
potentialSlotsThisDay(task, runState, allAccounts, accountAvailability, currentAttemptDate) ==
    IF allAccounts = << >> THEN << >>
    ELSE LET accountId == Head(allAccounts)
             dailyStatus == dailyStatusOf(runState, accountId, currentAttemptDate,
                                          accountAvailability)
             later == potentialSlotsThisDay(task, runState, Tail(allAccounts),
                                            accountAvailability, currentAttemptDate)
         IN IF PassesConstraints(dailyStatus, task)
            THEN << [accountId |-> accountId,
                     currentLoad |-> dailyStatus.purchaseCount] >> \o later
            ELSE later

\* The choice with the fault of a missing sort: the first slot in list order.
chosenAccountSlot_Unsorted(slots) == slots[1]

\* potentialSlotsThisDay.sort((a, b) => a.currentLoad - b.currentLoad)[0]
chosenAccountSlot(slots) ==
    SortByKeys(slots, [i \in 1..Len(slots) |-> slots[i].currentLoad])[1]

\* What the search yields when no day has a slot.
NoSlot == [found |-> FALSE]

\* The rounds with the fault of <= for < in the loop condition.
AttemptRounds_Inclusive == 0..MAX_SCHEDULING_ATTEMPT_DAYS

\* The values attemptedDays takes in the loop body:
\* while (... && attemptedDays < MAX_SCHEDULING_ATTEMPT_DAYS).
AttemptRounds == 0..(MAX_SCHEDULING_ATTEMPT_DAYS - 1)

\* The attempt date with the fault of a search that starts on the day after
\* today.
AttemptDate_FromTomorrow(today, attemptedDays) == addDays(today, attemptedDays + 1)

\* currentAttemptDate on the attemptedDays-th round: new Date(today), moved on
\* by addDays(currentAttemptDate, 1) with every round that finds no slot.
AttemptDate(today, attemptedDays) == addDays(today, attemptedDays)

\* Whether the loop body, on its attemptedDays-th round, finds a potential
\* slot (potentialSlotsThisDay.length > 0): some listed account passes the
\* checks on the day the round looks at.
HasSlotOnAttempt(task, runState, allAccounts, accountAvailability, today, attemptedDays) ==
    \E i \in 1..Len(allAccounts) :
        PassesConstraints(
            dailyStatusOf(runState, allAccounts[i],
                          AttemptDate(today, attemptedDays), accountAvailability),
            task)

\* The while loop of generateSchedule: it leaves with the slot of the first
\* round that finds one, or with none once attemptedDays reaches the bound.
earliestSlotFound(task, runState, allAccounts, accountAvailability, today) ==
    LET Hit(n) == HasSlotOnAttempt(task, runState, allAccounts,
                                   accountAvailability, today, n)
    IN IF \E n \in AttemptRounds : Hit(n)
       THEN LET attemptedDays ==
                    CHOOSE n \in AttemptRounds :
                        Hit(n) /\ \A m \in 0..(n - 1) : ~ Hit(m)
                currentAttemptDate == AttemptDate(today, attemptedDays)
            IN [found |-> TRUE,
                accountId |->
                    chosenAccountSlot(
                        potentialSlotsThisDay(task, runState, allAccounts,
                            accountAvailability, currentAttemptDate)).accountId,
                purchaseDate |-> currentAttemptDate]
       ELSE NoSlot

\* The created purchase with the fault of a review delay one day short.
scheduledItem_ShortDelay(task, slot) ==
    [purchaseId |-> task.reviewId,
     reviewId |-> task.reviewId,
     orderId |-> task.orderId,
     bookId |-> task.bookId,
     accountId |-> slot.accountId,
     purchaseDate |-> slot.purchaseDate,
     reviewDate |-> addDays(slot.purchaseDate, MIN_REVIEW_DELAY_DAYS - 1),
     status |-> "pending",
     client |-> task.clientId]

\* The ScheduledPurchase created for a task on a slot (lines 469-483).
scheduledItem(task, slot) ==
    [purchaseId |-> task.reviewId,
     reviewId |-> task.reviewId,
     orderId |-> task.orderId,
     bookId |-> task.bookId,
     accountId |-> slot.accountId,
     purchaseDate |-> slot.purchaseDate,
     reviewDate |-> addDays(slot.purchaseDate, MIN_REVIEW_DELAY_DAYS),
     status |-> "pending",
     client |-> task.clientId]

\* The if branch with the fault of a missing run state update.
Placed_NoUpdate(st, task, slot, accountAvailability) ==
    [st EXCEPT !.scheduledItems = Append(@, scheduledItem(task, slot))]

\* if (earliestSlotFound): the item is pushed and the run state of the chosen
\* slot updated (lines 467-492).  st is [runState, scheduledItems,
\* unschedulableTasks, warnings].
Placed(st, task, slot, accountAvailability) ==
    [st EXCEPT
        !.scheduledItems = Append(@, scheduledItem(task, slot)),
        !.runState = PutStatus(@, slot.accountId, slot.purchaseDate,
            CountPurchase(
                dailyStatusOf(st.runState, slot.accountId, slot.purchaseDate,
                              accountAvailability),
                task.bookId))]

\* The else branch with the fault of a task that is logged but not pushed.
NotPlaced_Dropped(st, task) ==
    [st EXCEPT !.warnings = Append(@, UnschedulableWarning(task))]

\* else: the warning is logged and the task pushed to unschedulableTasks
\* (lines 493-498).
NotPlaced(st, task) ==
    [st EXCEPT
        !.warnings = Append(@, UnschedulableWarning(task)),
        !.unschedulableTasks = Append(@, task)]

\* One round of the for loop over tasksToProcess.
ScheduleTask(st, task, slot, accountAvailability) ==
    IF slot.found THEN Placed(st, task, slot, accountAvailability)
    ELSE NotPlaced(st, task)

\* The for loop over tasksToProcess.
RECURSIVE ScheduleEach(_, _, _, _, _)
ScheduleEach(st, tasksToProcess, allAccounts, accountAvailability, today) ==
    IF tasksToProcess = << >> THEN st
    ELSE ScheduleEach(
             ScheduleTask(st, Head(tasksToProcess),
                 earliestSlotFound(Head(tasksToProcess), st.runState,
                     allAccounts, accountAvailability, today),
                 accountAvailability),
             Tail(tasksToProcess), allAccounts, accountAvailability, today)

\* generateSchedule: [scheduledItems, unschedulableTasks], with the warnings
\* given to the logger (in call order) and the final run state.
generateSchedule(tasksToProcess, existingCommittedSchedule, allAccounts, accountAvailability, today) ==
    LET init == initializeRunState(NewRunState, existingCommittedSchedule,
                                   accountAvailability, allAccounts)
    IN ScheduleEach([runState |-> init.runState,
                     scheduledItems |-> << >>,
                     unschedulableTasks |-> << >>,
                     warnings |-> init.warnings],
                    tasksToProcess, allAccounts, accountAvailability, today)

\* ordersToTasks: one task per order item, orders and items in order.
RECURSIVE ordersToTasks(_)
ordersToTasks(orders) ==
    IF orders = << >> THEN << >>
    ELSE LET order == Head(orders)
         IN [i \in 1..Len(order.items) |->
                [reviewId |-> order.items[i].reviewId,
                 bookId |-> order.items[i].bookId,
                 orderId |-> order.id,
                 clientId |-> order.clientId]]
            \o ordersToTasks(Tail(orders))

\* A faulty conversion: the client of the purchase is not carried over.
scheduledItemsToTasks_NoClient(items) ==
    [i \in 1..Len(items) |->
        [reviewId |-> items[i].reviewId,
         bookId |-> items[i].bookId,
         orderId |-> items[i].orderId,
         clientId |-> 0]]

\* scheduledItemsToTasks
scheduledItemsToTasks(items) ==
    [i \in 1..Len(items) |->
        [reviewId |-> items[i].reviewId,
         bookId |-> items[i].bookId,
         orderId |-> items[i].orderId,
         clientId |-> items[i].client]]

(***************************************************************************)
(* scheduleManager.ts: ScheduleManager                                     *)
(***************************************************************************)
VARIABLES
    masterSchedule,       \* ScheduledPurchase[], the canonical schedule
    allAccounts,          \* Account[] (the ids, in list order)
    accountAvailability,  \* account id -> set of unavailable Dates
    auditLog,             \* AuditLogEntry[], in append order
    lastOp,               \* the last public call: its name, arguments, outcome
    run,                  \* the last generateSchedule call: arguments and result
    opCount               \* number of public calls made so far

vars == << masterSchedule, allAccounts, accountAvailability, auditLog,
           lastOp, run, opCount >>

\* logAudit: the entry appended (timestamp: the position in the log).
AuditEntry(action, details, reason) ==
    [action |-> action, details |-> details, reason |-> reason]
logAudit_Prepend(log, action, details, reason) ==
    << AuditEntry(action, details, reason) >> \o log
logAudit(log, action, details, reason) ==
    Append(log, AuditEntry(action, details, reason))

\* The optional reason argument, when it is not given.
NoReason == "undefined"

\* No generateSchedule call was made.
NoRun ==
    [called |-> FALSE, tasksToProcess |-> << >>,
     existingCommittedSchedule |-> << >>, allAccounts |-> << >>,
     accountAvailability |-> << >>, today |-> 0,
     scheduledItems |-> << >>, unschedulableTasks |-> << >>,
     warnings |-> << >>]

\* A faulty scheduler that keeps its run state: the purchases the previous
\* run placed are counted again in this run.
RunOf_KeepsRunState(tasksToProcess, existingCommittedSchedule, accounts, availability, today) ==
    LET out == generateSchedule(tasksToProcess,
                   existingCommittedSchedule \o run.scheduledItems,
                   accounts, availability, today)
    IN [called |-> TRUE, tasksToProcess |-> tasksToProcess,
        existingCommittedSchedule |-> existingCommittedSchedule,
        allAccounts |-> accounts, accountAvailability |-> availability,
        today |-> today,
        scheduledItems |-> out.scheduledItems,
        unschedulableTasks |-> out.unschedulableTasks,
        warnings |-> out.warnings]

\* The record of one generateSchedule call.
RunOf(tasksToProcess, existingCommittedSchedule, accounts, availability, today) ==
    LET out == generateSchedule(tasksToProcess, existingCommittedSchedule,
                                accounts, availability, today)
    IN [called |-> TRUE, tasksToProcess |-> tasksToProcess,
        existingCommittedSchedule |-> existingCommittedSchedule,
        allAccounts |-> accounts, accountAvailability |-> availability,
        today |-> today,
        scheduledItems |-> out.scheduledItems,
        unschedulableTasks |-> out.unschedulableTasks,
        warnings |-> out.warnings]

\* The logger given to the scheduler: one SCHEDULER_WARNING entry per warning.
RECURSIVE LogWarnings(_, _)
LogWarnings(log, warnings) ==
    IF warnings = << >> THEN log
    ELSE LogWarnings(logAudit(log, "SCHEDULER_WARNING",
                              [message |-> Head(warnings)], NoReason),
                     Tail(warnings))

\* A faulty filter: only pending purchases are carried over.
IsCommitted_PendingOnly(p) == p.status = "pending"

\* masterSchedule.filter(p => p.status === "pending" || p.status === "completed")
IsCommitted(p) == p.status = "pending" \/ p.status = "completed"
committedSchedule(schedule) == SelectSeq(schedule, IsCommitted)

\* [...].sort((a, b) => a.purchaseDate.getTime() - b.purchaseDate.getTime())
SortByPurchaseDate(schedule) ==
    SortByKeys(schedule, [i \in 1..Len(schedule) |-> schedule[i].purchaseDate])

\* The TASKS_SCHEDULED entry, logged when the run scheduled something.
LogScheduled(log, scheduledItems) ==
    IF Len(scheduledItems) > 0
    THEN logAudit(log, "TASKS_SCHEDULED",
             [count |-> Len(scheduledItems),
              items |-> [i \in 1..Len(scheduledItems) |->
                 [reviewId |-> scheduledItems[i].reviewId,
                  date |-> dateToDateString(scheduledItems[i].purchaseDate),
                  account |-> scheduledItems[i].accountId]]],
             NoReason)
    ELSE log

\* A faulty log: tasks without a slot leave no entry.
LogUnschedulable_Silent(log, unschedulableTasks) == log

\* A faulty log: the entry counts the tasks without a slot and names none.
LogUnschedulable_CountOnly(log, unschedulableTasks) ==
    IF Len(unschedulableTasks) > 0
    THEN logAudit(log, "UNSCHEDULABLE_TASKS_ENCOUNTERED",
             [count |-> Len(unschedulableTasks), tasks |-> << >>],
             "Some tasks could not be scheduled")
    ELSE log

\* The UNSCHEDULABLE_TASKS_ENCOUNTERED entry, logged when a task found no slot.
LogUnschedulable(log, unschedulableTasks) ==
    IF Len(unschedulableTasks) > 0
    THEN logAudit(log, "UNSCHEDULABLE_TASKS_ENCOUNTERED",
             [count |-> Len(unschedulableTasks),
              tasks |-> [i \in 1..Len(unschedulableTasks) |->
                 [reviewId |-> unschedulableTasks[i].reviewId,
                  bookId |-> unschedulableTasks[i].bookId]]],
             "Some tasks could not be scheduled")
    ELSE log

\* A faulty merge: the tasks without a slot are logged before the run's
\* warnings and scheduled tasks.
MergeRun_UnschedulableFirst(committed, log, r, reasonForProcessing) ==
    [masterSchedule |-> SortByPurchaseDate(committed \o r.scheduledItems),
     auditLog |->
         logAudit(
             LogScheduled(
                 LogWarnings(LogUnschedulable(log, r.unschedulableTasks),
                             r.warnings),
                 r.scheduledItems),
             "PROCESSING_TASKS_END", [reason |-> reasonForProcessing], NoReason),
     run |-> r]

\* processTasks after the scheduler call r returned: the entries logged, and
\* the master schedule rebuilt from the committed purchases and the new ones.
MergeRun(committed, log, r, reasonForProcessing) ==
    [masterSchedule |-> SortByPurchaseDate(committed \o r.scheduledItems),
     auditLog |->
         logAudit(
             LogUnschedulable(
                 LogScheduled(LogWarnings(log, r.warnings), r.scheduledItems),
                 r.unschedulableTasks),
             "PROCESSING_TASKS_END", [reason |-> reasonForProcessing], NoReason),
     run |-> r]

\* processTasks, from a manager state [masterSchedule, auditLog]: the state
\* it leaves and the generateSchedule call it made.
processTasks(schedule, log, tasksToProcess, reasonForProcessing, today, accounts, availability) ==
    IF Len(tasksToProcess) = 0
    THEN [masterSchedule |-> schedule, auditLog |-> log, run |-> NoRun]
    ELSE MergeRun(committedSchedule(schedule),
                  logAudit(log, "PROCESSING_TASKS_START",
                      [taskCount |-> Len(tasksToProcess),
                       reason |-> reasonForProcessing], NoReason),
                  RunOf(tasksToProcess, committedSchedule(schedule), accounts,
                        availability, today),
                  reasonForProcessing)

\* The manager's fields as a call finds them.
StateBefore ==
    [masterSchedule |-> masterSchedule, allAccounts |-> allAccounts,
     accountAvailability |-> accountAvailability, auditLog |-> auditLog]

\* What lastOp keeps of a public call: its name, the account it names (0 when
\* it names none), the purchase id and status it names (0 and "none" when it
\* names none), the date lists it gives (empty when it gives none), whether
\* it threw, and the fields as the call found them.
NoStatus == "none"
OpRecord(name, accountId, threw) ==
    [name |-> name, accountId |-> accountId, purchaseId |-> 0,
     status |-> NoStatus, unavailableDates |-> {}, availableDates |-> {},
     threw |-> threw, before |-> StateBefore]
MarkRecord(purchaseId, status, threw) ==
    [name |-> "markPurchaseStatus", accountId |-> 0, purchaseId |-> purchaseId,
     status |-> status, unavailableDates |-> {}, availableDates |-> {},
     threw |-> threw, before |-> StateBefore]
AvailabilityRecord(accountId, unavailableDates, availableDates, threw) ==
    [name |-> "setAccountAvailability", accountId |-> accountId,
     purchaseId |-> 0, status |-> NoStatus,
     unavailableDates |-> unavailableDates, availableDates |-> availableDates,
     threw |-> threw, before |-> StateBefore]

\* constructor(initialAccounts, {}): the state after construction.
InitManager(initialAccounts) ==
    /\ masterSchedule = << >>
    /\ allAccounts = initialAccounts
    /\ accountAvailability = [a \in AccountIds |-> {}]
    /\ auditLog = logAudit(<< >>, "INIT",
                      [initialAccounts |-> initialAccounts,
                       initialAvailability |-> << >>], "System initialized")
    /\ lastOp = OpRecord("constructor", 0, FALSE)
    /\ run = NoRun
    /\ opCount = 0

\* this.accountAvailability[accountId] || { unavailableDates: [] }
UnavailableDatesOf(availability, accountId) ==
    IF accountId \in DOMAIN availability THEN availability[accountId] ELSE {}

\* this.accountAvailability[accountId] = { unavailableDates: dates }
SetUnavailableDates(availability, accountId, dates) ==
    [a \in DOMAIN availability \cup {accountId} |->
        IF a = accountId THEN dates ELSE availability[a]]

\* addAccount(account)
addAccount(accountId) ==
    /\ opCount' = opCount + 1
    /\ lastOp' = OpRecord("addAccount", accountId, FALSE)
    /\ run' = NoRun
    /\ IF \A i \in 1..Len(allAccounts) : allAccounts[i] # accountId
       THEN /\ allAccounts' = Append(allAccounts, accountId)
            /\ auditLog' = logAudit(auditLog, "ACCOUNT_ADDED",
                               [accountId |-> accountId], NoReason)
       ELSE UNCHANGED << allAccounts, auditLog >>
    /\ UNCHANGED << masterSchedule, accountAvailability >>

\* addNewOrders(orders, today)
addNewOrders(orders, today) ==
    LET newTasks == ordersToTasks(orders)
        log1 == logAudit(auditLog, "NEW_ORDERS_RECEIVED",
                    [orderIds |-> [i \in 1..Len(orders) |-> orders[i].id],
                     taskCount |-> Len(newTasks)], NoReason)
        done == processTasks(masterSchedule, log1, newTasks,
                    "Processing new orders", today, allAccounts,
                    accountAvailability)
    IN /\ opCount' = opCount + 1
       /\ lastOp' = OpRecord("addNewOrders", 0, FALSE)
       /\ IF Len(newTasks) = 0
          THEN /\ run' = NoRun
               /\ UNCHANGED << masterSchedule, auditLog >>
          ELSE /\ masterSchedule' = done.masterSchedule
               /\ auditLog' = done.auditLog
               /\ run' = done.run
       /\ UNCHANGED << allAccounts, accountAvailability >>

\* masterSchedule.findIndex(p => p.purchaseId === purchaseId); 0 for -1.
purchaseIndex(schedule, purchaseId) ==
    IF \E i \in 1..Len(schedule) : schedule[i].purchaseId = purchaseId
    THEN CHOOSE i \in 1..Len(schedule) :
             /\ schedule[i].purchaseId = purchaseId
             /\ \A j \in 1..(i - 1) : schedule[j].purchaseId # purchaseId
    ELSE 0

\* A faulty splice: the purchase stays in the schedule.
SpliceOut_Nothing(schedule, index) == schedule

\* masterSchedule.splice(index, 1): the schedule left.
SpliceOut(schedule, index) ==
    SubSeq(schedule, 1, index - 1) \o SubSeq(schedule, index + 1, Len(schedule))

\* `Status changed to ${status}` and `Rescheduling due to purchase ${status}`
StatusChangedTo(status) ==
    IF status = "missed" THEN "Status changed to missed"
    ELSE "Status changed to delayed"
ReschedulingDueTo(status) ==
    IF status = "missed" THEN "Rescheduling due to purchase missed"
    ELSE "Rescheduling due to purchase delayed"

\* A faulty failure path: nothing is logged before the throw.
LogMarkStatusFail_Silent(log, purchaseId, status) == log

\* Lines 210-217: the entry logged before "Purchase ... not found" is thrown.
LogMarkStatusFail(log, purchaseId, status) ==
    logAudit(log, "MARK_STATUS_FAIL",
        [purchaseId |-> purchaseId, status |-> status], "Purchase not found")

\* A faulty status update: the change leaves no entry.
LogStatusUpdated_Silent(log, purchase, status) == log

\* Lines 222-228: the entry logged when the status is overwritten.
LogStatusUpdated(log, purchase, status) ==
    logAudit(log, "PURCHASE_STATUS_UPDATED",
        [purchaseId |-> purchase.purchaseId, oldStatus |-> purchase.status,
         newStatus |-> status, bookId |-> purchase.bookId], NoReason)

\* A faulty condition: only "missed" leads to rescheduling.
TriggersReschedule_MissedOnly(status) == status = "missed"

\* A faulty condition: every new status but "pending" leads to rescheduling.
TriggersReschedule_AnyButPending(status) == status # "pending"

\* A faulty comparison: the new status is never taken for the current one.
AlreadyHasStatus_Never(purchase, status) == FALSE

\* if (purchase.status === status) return
AlreadyHasStatus(purchase, status) == purchase.status = status

\* A faulty condition: only "delayed" leads to rescheduling.
TriggersReschedule_DelayedOnly(status) == status = "delayed"

\* if (status === "missed" || status === "delayed")
TriggersReschedule(status) == status = "missed" \/ status = "delayed"

\* A faulty resubmission: the marked purchase stays in the schedule.
RescheduleMarked_KeepsOld(schedule, log, index, status, today, accounts, availability) ==
    processTasks(schedule,
        logAudit(log, "TASK_FLAGGED_FOR_RESCHEDULE",
            [purchaseId |-> schedule[index].purchaseId,
             reason |-> StatusChangedTo(status)], NoReason),
        scheduledItemsToTasks(<< [schedule[index] EXCEPT !.status = status] >>),
        ReschedulingDueTo(status), today, accounts, availability)

\* Lines 231-246: the purchase at index is flagged, spliced out of the
\* schedule and resubmitted as a task.
RescheduleMarked(schedule, log, index, status, today, accounts, availability) ==
    processTasks(SpliceOut(schedule, index),
        logAudit(log, "TASK_FLAGGED_FOR_RESCHEDULE",
            [purchaseId |-> schedule[index].purchaseId,
             reason |-> StatusChangedTo(status)], NoReason),
        scheduledItemsToTasks(<< [schedule[index] EXCEPT !.status = status] >>),
        ReschedulingDueTo(status), today, accounts, availability)

\* markPurchaseStatus from a manager state [masterSchedule, auditLog]: the
\* state it leaves and the generateSchedule call it made.
markPurchaseStatusFrom(schedule, log, purchaseId, status, today, accounts, availability) ==
    LET index == purchaseIndex(schedule, purchaseId)
    IN IF index = 0
       THEN [masterSchedule |-> schedule,
             auditLog |-> LogMarkStatusFail(log, purchaseId, status),
             run |-> NoRun]
       ELSE IF AlreadyHasStatus(schedule[index], status)
       THEN [masterSchedule |-> schedule, auditLog |-> log, run |-> NoRun]
       ELSE IF TriggersReschedule(status)
       THEN RescheduleMarked(schedule,
                LogStatusUpdated(log, schedule[index], status), index, status,
                today, accounts, availability)
       ELSE [masterSchedule |-> [schedule EXCEPT ![index].status = status],
             auditLog |-> LogStatusUpdated(log, schedule[index], status),
             run |-> NoRun]

\* markPurchaseStatus(purchaseId, status, reason, today)
markPurchaseStatus(purchaseId, status, today) ==
    LET done == markPurchaseStatusFrom(masterSchedule, auditLog, purchaseId,
                    status, today, allAccounts, accountAvailability)
    IN /\ opCount' = opCount + 1
       /\ lastOp' = MarkRecord(purchaseId, status,
                         purchaseIndex(masterSchedule, purchaseId) = 0)
       /\ masterSchedule' = done.masterSchedule
       /\ auditLog' = done.auditLog
       /\ run' = done.run
       /\ UNCHANGED << allAccounts, accountAvailability >>

\* The day keys of a list of Dates: new Set(dates.map(dateToDateString)).
DateStrings(dates) == {dateToDateString(d) : d \in dates}

\* A faulty merge: the days to unblock are taken out before the days to
\* block are put in.
MergedAvailability_SubtractFirst(existing, unavailableDates, availableDates) ==
    LET existingStrings == DateStrings(existing)
        removed == DateStrings(availableDates) \cap existingStrings
        afterRemove == existingStrings \ removed
        added == DateStrings(unavailableDates) \ afterRemove
    IN [dateStrings |-> afterRemove \cup added,
        changed |-> added # {} \/ removed # {}]

\* setAccountAvailability, lines 91-128: the day keys stored afterwards and
\* whether the call changed anything.
MergedAvailability(existing, unavailableDates, availableDates) ==
    LET existingStrings == DateStrings(existing)
        added == DateStrings(unavailableDates) \ existingStrings
        afterAdd == existingStrings \cup added
        removed == DateStrings(availableDates) \cap afterAdd
    IN [dateStrings |-> afterAdd \ removed,
        changed |-> added # {} \/ removed # {}]

\* Whether the forEach of setAccountAvailability flags a purchase.
FlaggedForAccount(purchase, accountId, unavailable) ==
    /\ purchase.accountId = accountId
    /\ purchase.status = "pending"
    /\ SomeOnDayOf(unavailable, purchase.purchaseDate)

\* A faulty audit: only the first flagged purchase gets an entry.
LogFlagged_FirstOnly(log, flagged) ==
    IF flagged = << >> THEN log
    ELSE logAudit(log, "TASK_FLAGGED_FOR_RESCHEDULE",
             [purchaseId |-> Head(flagged).purchaseId,
              reason |-> "Account now unavailable"], NoReason)

\* One TASK_FLAGGED_FOR_RESCHEDULE entry per flagged purchase, in schedule order.
RECURSIVE LogFlagged(_, _)
LogFlagged(log, flagged) ==
    IF flagged = << >> THEN log
    ELSE LogFlagged(logAudit(log, "TASK_FLAGGED_FOR_RESCHEDULE",
                        [purchaseId |-> Head(flagged).purchaseId,
                         reason |-> "Account now unavailable"], NoReason),
                    Tail(flagged))

\* The values of new Date(Date.UTC(y, m, d)) for the clock's day: the default
\* today of processTasks.  The clock's day is one of the days 0..MaxDay.
ClockTodays == {dateStringtoDate(day) : day \in 0..MaxDay}

\* A faulty failure path: nothing is logged before the throw.
LogSetAvailabilityFail_Silent(log, accountId) == log

\* Lines 82-89: the entry logged before "Account ... not found" is thrown.
LogSetAvailabilityFail(log, accountId) ==
    logAudit(log, "SET_AVAILABILITY_FAIL",
        [accountId |-> accountId], "Account not found")

\* setAccountAvailability(accountId, unavailableDates, availableDates).  The
\* resubmission calls processTasks without a today, so it starts from the
\* clock's day.
setAccountAvailability(accountId, unavailableDates, availableDates) ==
    LET known == \E i \in 1..Len(allAccounts) : allAccounts[i] = accountId
        merged == MergedAvailability(
                      UnavailableDatesOf(accountAvailability, accountId),
                      unavailableDates, availableDates)
        stored == {dateStringtoDate(str) : str \in merged.dateStrings}
        availability == SetUnavailableDates(accountAvailability, accountId, stored)
        log1 == logAudit(auditLog, "ACCOUNT_AVAILABILITY_UPDATED",
                    [accountId |-> accountId, unavailableDates |-> stored],
                    "Account availability changed")
        Flagged(p) == FlaggedForAccount(p, accountId, stored)
        Remaining(p) == ~ FlaggedForAccount(p, accountId, stored)
        flagged == SelectSeq(masterSchedule, Flagged)
        remainingSchedule == SelectSeq(masterSchedule, Remaining)
        log2 == LogFlagged(log1, flagged)
    IN /\ opCount' = opCount + 1
       /\ UNCHANGED allAccounts
       /\ IF ~ known
          THEN /\ lastOp' = AvailabilityRecord(accountId, unavailableDates,
                                 availableDates, TRUE)
               /\ auditLog' = LogSetAvailabilityFail(auditLog, accountId)
               /\ run' = NoRun
               /\ UNCHANGED << masterSchedule, accountAvailability >>
          ELSE /\ lastOp' = AvailabilityRecord(accountId, unavailableDates,
                                 availableDates, FALSE)
               /\ accountAvailability' = availability
               /\ IF ~ merged.changed
                  THEN /\ run' = NoRun
                       /\ UNCHANGED << masterSchedule, auditLog >>
                  ELSE IF Len(flagged) > 0
                  THEN \E now \in ClockTodays :
                         LET done == processTasks(remainingSchedule, log2,
                                scheduledItemsToTasks(flagged),
                                "Rescheduling due to account unavailability change",
                                now, allAccounts, availability)
                         IN /\ masterSchedule' = done.masterSchedule
                            /\ auditLog' = done.auditLog
                            /\ run' = done.run
                  ELSE /\ auditLog' = log1
                       /\ run' = NoRun
                       /\ UNCHANGED masterSchedule

(***************************************************************************)
(* The callers' inputs                                                     *)
(***************************************************************************)
\* The book of a review request: requests MaxReviews apart in number share one.
BookOf(reviewId) == ((reviewId - 1) % NumBooks) + 1

\* Most items of one order in the lists below.
ItemsPerOrder == 2

\* The order for the review requests first .. last.
OrderOf(first, last) ==
    [id |-> first, clientId |-> first,
     items |-> [i \in 1..(last - first + 1) |->
                   [reviewId |-> first + i - 1, bookId |-> BookOf(first + i - 1)]]]

\* Orders for the n review requests from first on, ItemsPerOrder to an order
\* (the last order takes what is left).
RECURSIVE OrdersFor(_, _)
OrdersFor(first, n) ==
    IF n <= 0 THEN << >>
    ELSE IF n <= ItemsPerOrder THEN << OrderOf(first, first + n - 1) >>
    ELSE << OrderOf(first, first + ItemsPerOrder - 1) >>
         \o OrdersFor(first + ItemsPerOrder, n - ItemsPerOrder)

\* The order lists given to addNewOrders: orders for the first n requests
\* (n = 0: no order), or one order for the last request, whose book is the
\* first request's when MaxReviews = NumBooks + 1.
OrderLists ==
    {OrdersFor(1, n) : n \in 0..MaxItems} \cup {OrdersFor(MaxReviews, 1)}

\* A Date inside day, with a time of day that depends on the day (not
\* midnight on day 0, midnight on day 1).
DateIn(day) == dateStringtoDate(day) + ((day + 1) % TicksPerDay)

\* The today a caller passes: a Date of one of the days 0..MaxDay.
Todays == {DateIn(day) : day \in 0..MaxDay}

\* The date lists given to setAccountAvailability.
UnavailableLists == {{}} \cup {{DateIn(day)} : day \in 0..MaxDay}
AvailableLists == {{}} \cup {{DateIn(day)} : day \in 0..MaxDay}

Statuses == {"pending", "completed", "missed", "delayed"}

\* The purchase ids of the schedule, and one that is not in it.
KnownPurchaseIds ==
    {masterSchedule[i].purchaseId : i \in 1..Len(masterSchedule)}

\* A call of setAccountAvailability blocks days, unblocks days, or names the
\* same day in both lists.
AvailabilityArgs ==
    {args \in UnavailableLists \X AvailableLists :
        \/ args[1] = {}
        \/ args[2] = {}
        \/ args[1] = args[2]}

\* new ScheduleManager(initialAccounts, {}) with the first n accounts.
Init ==
    \E n \in 0..NumAccounts : InitManager([i \in 1..n |-> i])

\* The calls made on one manager: at most MaxOps of them.
Next ==
    \/ \E a \in AccountIds : opCount < MaxOps /\ addAccount(a)
    \/ \E orders \in OrderLists, today \in Todays :
           opCount < MaxOps /\ addNewOrders(orders, today)
    \/ \E id \in KnownPurchaseIds \cup {UnknownPurchase}, status \in Statuses,
          today \in Todays :
           opCount < MaxOps /\ markPurchaseStatus(id, status, today)
    \/ \E a \in AccountIds \cup {UnknownAccount}, args \in AvailabilityArgs :
           opCount < MaxOps /\ setAccountAvailability(a, args[1], args[2])

Spec == Init /\ [][Next]_vars

(***************************************************************************)
(* The scheduler called on its own: generateSchedule applied to inputs of  *)
(* any shape, not only those the manager builds.  masterSchedule holds the *)
(* existingCommittedSchedule argument, allAccounts and accountAvailability *)
(* the arguments of the same name.                                         *)
(***************************************************************************)
\* Days 0..LongBlock - 1 are the longest run of blocked days given below
\* the search bound; days 0..LongBlock the shortest above it.
LongBlock == MAX_SCHEDULING_ATTEMPT_DAYS - 1

\* One Date in every day from day 0 to day last.
BlockedThrough(last) == {DateIn(day) : day \in 0..last}

\* A ScheduledPurchase of an existing schedule.
CommittedPurchase(purchaseId, accountId, purchaseDate, bookId, status) ==
    [purchaseId |-> purchaseId, reviewId |-> purchaseId, orderId |-> purchaseId,
     bookId |-> bookId, accountId |-> accountId, purchaseDate |-> purchaseDate,
     reviewDate |-> addDays(purchaseDate, MIN_REVIEW_DELAY_DAYS),
     status |-> status, client |-> purchaseId]

\* The account lists given to generateSchedule: none, the first account,
\* and the first two accounts in either order.
EngineAccountLists == {<< >>, << 1 >>, << 1, 2 >>, << 2, 1 >>}

\* The availability arguments: no entry at all, no blocked day, day 0 blocked
\* for one account or for all, and long runs of blocked days.
EngineAvailabilities ==
    {<< >>, [a \in AccountIds |-> {}]}
        \cup {[a \in AccountIds |-> IF a = b THEN {DateIn(0)} ELSE {}] :
                 b \in AccountIds}
        \cup {[a \in AccountIds |-> dates] :
                 dates \in {{DateIn(0)}, BlockedThrough(LongBlock - 1),
                            BlockedThrough(LongBlock)}}

\* The existing schedules: none, one purchase on day 0, and a full day 0 for
\* the first account.
EngineCommittedSchedules ==
    {<< >>}
        \cup {<< CommittedPurchase(UnknownPurchase, a, DateIn(0), 1, status) >> :
                 a \in {1, 2}, status \in {"pending", "completed", "missed"}}
        \cup {<< CommittedPurchase(UnknownPurchase, UnknownAccount, DateIn(0), 1,
                                   "pending") >>}
        \cup {[i \in 1..MAX_PURCHASES_PER_ACCOUNT_PER_DAY |->
                 CommittedPurchase(UnknownPurchase + i, 1, DateIn(0), i + 1,
                                   "pending")]}

\* The task lists: the first n review requests, two requests for one book,
\* and one task given twice.
EngineTaskLists ==
    {ordersToTasks(OrdersFor(1, n)) : n \in 0..MaxItems}
        \cup {ordersToTasks(OrdersFor(1, 1) \o OrdersFor(MaxReviews, 1)),
              ordersToTasks(OrdersFor(1, 1) \o OrdersFor(1, 1))}

\* The today arguments: midnight of day 0 and the Dates callers pass.
EngineTodays == {dateStringtoDate(0)} \cup Todays

EngineInit ==
    /\ masterSchedule \in EngineCommittedSchedules
    /\ allAccounts \in EngineAccountLists
    /\ accountAvailability \in EngineAvailabilities
    /\ auditLog = << >>
    /\ lastOp = OpRecord("constructor", 0, FALSE)
    /\ run = NoRun
    /\ opCount = 0

\* scheduler.generateSchedule(tasksToProcess, masterSchedule, allAccounts,
\* accountAvailability, today)
callGenerateSchedule(tasksToProcess, today) ==
    /\ opCount < 1
    /\ opCount' = opCount + 1
    /\ lastOp' = OpRecord("generateSchedule", 0, FALSE)
    /\ run' = RunOf(tasksToProcess, masterSchedule, allAccounts,
                    accountAvailability, today)
    /\ UNCHANGED << masterSchedule, allAccounts, accountAvailability, auditLog >>

EngineNext ==
    \E tasksToProcess \in EngineTaskLists, today \in EngineTodays :
        callGenerateSchedule(tasksToProcess, today)

EngineSpec == EngineInit /\ [][EngineNext]_vars

(***************************************************************************)
(* The manager under long unavailability: accounts blocked for more days   *)
(* than the scheduler searches, so that resubmitted tasks find no slot.    *)
(***************************************************************************)
\* One Date in every day a search that starts on a day 0..MaxDay can visit.
WholeHorizon == BlockedThrough(MaxDay + MAX_SCHEDULING_ATTEMPT_DAYS - 1)

\* The same without day 0.
LaterDays == WholeHorizon \ {DateIn(0)}

\* The date lists blocked in one call.
BlockedLists == {WholeHorizon, LaterDays}

\* The order lists: orders for the first request, or for the first two.
ShortOrderLists == {OrdersFor(1, n) : n \in 1..ItemsPerOrder}

BlockedNext ==
    \/ \E a \in AccountIds : opCount < MaxOps /\ addAccount(a)
    \/ \E orders \in ShortOrderLists, today \in Todays :
           opCount < MaxOps /\ addNewOrders(orders, today)
    \/ \E id \in KnownPurchaseIds \cup {UnknownPurchase}, status \in Statuses,
          today \in Todays :
           opCount < MaxOps /\ markPurchaseStatus(id, status, today)
    \/ \E a \in AccountIds, dates \in BlockedLists :
           opCount < MaxOps /\ setAccountAvailability(a, dates, {})

BlockedSpec == Init /\ [][BlockedNext]_vars

(***************************************************************************)
(* Longer call sequences on one manager with one account and one review    *)
(* request, every call made with the same today.                           *)
(***************************************************************************)
\* Most calls in one such sequence.
DeepOps == 5

DeepInit == InitManager(<< 1 >>)

DeepNext ==
    \/ \E a \in AccountIds : opCount < DeepOps /\ addAccount(a)
    \/ opCount < DeepOps /\ addNewOrders(OrdersFor(1, 1), DateIn(0))
    \/ \E id \in KnownPurchaseIds, status \in Statuses :
           opCount < DeepOps /\ markPurchaseStatus(id, status, DateIn(0))
    \/ \E day \in 0..MaxDay :
           opCount < DeepOps /\ setAccountAvailability(1, {DateIn(day)}, {})

DeepSpec == DeepInit /\ [][DeepNext]_vars

(***************************************************************************)
(* Properties of the master schedule (checked under Spec)                  *)
(***************************************************************************)
\* Whether purchase p is on account accountId on the day dateStr.
OnAccountDay(p, accountId, dateStr) ==
    /\ p.accountId = accountId
    /\ dateToDateString(p.purchaseDate) = dateStr

\* The accounts and days the master schedule names.
ScheduleAccounts == {masterSchedule[i].accountId : i \in 1..Len(masterSchedule)}
ScheduleDays ==
    {dateToDateString(masterSchedule[i].purchaseDate) : i \in 1..Len(masterSchedule)}

\* The positions of the pending or completed purchases of an account on a day.
CommittedOnDay(accountId, dateStr) ==
    {i \in 1..Len(masterSchedule) :
        /\ masterSchedule[i].status \in {"pending", "completed"}
        /\ OnAccountDay(masterSchedule[i], accountId, dateStr)}

\* C1: after any sequence of addNewOrders, markPurchaseStatus,
\* setAccountAvailability and addAccount calls from an empty schedule, every
\* (account, calendar day) holds at most MAX_PURCHASES_PER_ACCOUNT_PER_DAY (3)
\* pending or completed purchases of the master schedule.
C1_CapacityPerAccountDay ==
    \A accountId \in ScheduleAccounts, dateStr \in ScheduleDays :
        Cardinality(CommittedOnDay(accountId, dateStr))
            <= MAX_PURCHASES_PER_ACCOUNT_PER_DAY

\* C1 happens: an account holds 3 purchases on one day and a further one on a
\* later day.
C1_FullDayWitness ==
    \E accountId \in ScheduleAccounts, dateStr \in ScheduleDays :
        /\ Cardinality(CommittedOnDay(accountId, dateStr))
               = MAX_PURCHASES_PER_ACCOUNT_PER_DAY
        /\ \E later \in ScheduleDays :
               later > dateStr /\ CommittedOnDay(accountId, later) # {}

\* C2: after any sequence of manager calls from an empty schedule, no two
\* purchases of the master schedule have the same account, the same calendar
\* day and the same book id.
C2_NoBookTwicePerAccountDay ==
    \A i, j \in 1..Len(masterSchedule) :
        (/\ i < j
         /\ masterSchedule[i].accountId = masterSchedule[j].accountId
         /\ dateToDateString(masterSchedule[i].purchaseDate)
                = dateToDateString(masterSchedule[j].purchaseDate))
            => masterSchedule[i].bookId # masterSchedule[j].bookId

\* C2 happens: the schedule holds two purchases of one book, kept apart by
\* account or by day.
C2_SameBookWitness ==
    \E i, j \in 1..Len(masterSchedule) :
        /\ i < j
        /\ masterSchedule[i].bookId = masterSchedule[j].bookId
        /\ \/ masterSchedule[i].accountId # masterSchedule[j].accountId
           \/ dateToDateString(masterSchedule[i].purchaseDate)
                  # dateToDateString(masterSchedule[j].purchaseDate)

\* Whether the review date of p is exactly MIN_REVIEW_DELAY_DAYS calendar days
\* after its purchase date, at the same time of day.
ReviewDelayExact(p) ==
    /\ dateToDateString(p.reviewDate)
           = dateToDateString(p.purchaseDate) + MIN_REVIEW_DELAY_DAYS
    /\ p.reviewDate - dateStringtoDate(dateToDateString(p.reviewDate))
           = p.purchaseDate - dateStringtoDate(dateToDateString(p.purchaseDate))

\* C3: every purchase ever present in the master schedule, and every item
\* generateSchedule returns, has reviewDate = purchaseDate + exactly 4 calendar
\* days (MIN_REVIEW_DELAY_DAYS), also after being rescheduled.
C3_ReviewDateFourDaysLater ==
    /\ \A i \in 1..Len(masterSchedule) : ReviewDelayExact(masterSchedule[i])
    /\ \A i \in 1..Len(run.scheduledItems) : ReviewDelayExact(run.scheduledItems[i])

\* C3 happens: markPurchaseStatus has rescheduled a purchase, which is in the
\* master schedule again.
C3_RescheduledWitness ==
    /\ lastOp.name = "markPurchaseStatus"
    /\ run.called
    /\ \E i \in 1..Len(run.scheduledItems), j \in 1..Len(masterSchedule) :
           masterSchedule[j] = run.scheduledItems[i]

\* C5, as claimed: after setAccountAvailability(account, blocked, unblocked)
\* returns normally, the master schedule holds no pending purchase of that
\* account on a day that is in the account's stored unavailable dates.
C5_NoPendingOnBlockedDayAfterSet ==
    (lastOp.name = "setAccountAvailability" /\ ~ lastOp.threw)
        => \A i \in 1..Len(masterSchedule) :
               (/\ masterSchedule[i].accountId = lastOp.accountId
                /\ masterSchedule[i].status = "pending")
                   => ~ SomeOnDayOf(
                            UnavailableDatesOf(accountAvailability, lastOp.accountId),
                            masterSchedule[i].purchaseDate)

(***************************************************************************)
(* Properties of one generateSchedule call (checked under EngineSpec).     *)
(* They read the call recorded in run: its arguments and what it returned. *)
(* What an account holds when the k-th returned item is about to be placed *)
(* is counted from the arguments and the items returned before it.         *)
(***************************************************************************)
\* The positions of the committed purchases, other than missed ones, of an
\* account on a day.
CommittedInRun(accountId, dateStr) ==
    {i \in 1..Len(run.existingCommittedSchedule) :
        /\ run.existingCommittedSchedule[i].status # "missed"
        /\ OnAccountDay(run.existingCommittedSchedule[i], accountId, dateStr)}

\* The positions of the items placed before the k-th on an account and day.
PlacedBefore(k, accountId, dateStr) ==
    {i \in 1..(k - 1) : OnAccountDay(run.scheduledItems[i], accountId, dateStr)}

LoadBefore(k, accountId, dateStr) ==
    Cardinality(CommittedInRun(accountId, dateStr))
        + Cardinality(PlacedBefore(k, accountId, dateStr))

BooksBefore(k, accountId, dateStr) ==
    {run.existingCommittedSchedule[i].bookId : i \in CommittedInRun(accountId, dateStr)}
        \cup {run.scheduledItems[i].bookId : i \in PlacedBefore(k, accountId, dateStr)}

\* Whether the availability argument lists the day for the account.
ListedUnavailable(accountId, dateStr) ==
    /\ accountId \in DOMAIN run.accountAvailability
    /\ \E d \in DatesOfDay(dateStr) : d \in run.accountAvailability[accountId]

\* Whether the account is blocked on the day in this run: listed, and not
\* unblocked by a committed purchase on that day.
BlockedInRun(accountId, dateStr) ==
    /\ ListedUnavailable(accountId, dateStr)
    /\ CommittedInRun(accountId, dateStr) = {}

\* The three constraints, for an account and day when the k-th item is placed.
AccountFree(k, accountId, dateStr, bookId) ==
    /\ ~ BlockedInRun(accountId, dateStr)
    /\ LoadBefore(k, accountId, dateStr) < MAX_PURCHASES_PER_ACCOUNT_PER_DAY
    /\ bookId \notin BooksBefore(k, accountId, dateStr)

DayFree(k, dateStr, bookId) ==
    \E i \in 1..Len(run.allAccounts) :
        AccountFree(k, run.allAccounts[i], dateStr, bookId)

\* The day of the today argument, and the day of the k-th returned item.
StartDay == dateToDateString(run.today)
ItemDay(k) == dateToDateString(run.scheduledItems[k].purchaseDate)

C6_EarliestFreeDay ==
    run.called =>
        \A k \in 1..Len(run.scheduledItems) :
            /\ ItemDay(k) >= StartDay
            /\ DayFree(k, ItemDay(k), run.scheduledItems[k].bookId)
            /\ \A dateStr \in StartDay..(ItemDay(k) - 1) :
                   ~ DayFree(k, dateStr, run.scheduledItems[k].bookId)

\* C6 happens: two items of one call, the earlier on the start day and the
\* later on a later day.
C6_LaterDayWitness ==
    /\ run.called
    /\ \E j, k \in 1..Len(run.scheduledItems) :
           j < k /\ ItemDay(j) = StartDay /\ ItemDay(k) > StartDay

\* The first position of an account in the account list.
ListPosition(accountId) ==
    CHOOSE i \in 1..Len(run.allAccounts) :
        /\ run.allAccounts[i] = accountId
        /\ \A j \in 1..(i - 1) : run.allAccounts[j] # accountId

\* C7: on the chosen day the task goes to the account with the least current
\* purchase count among the accounts passing the three constraints, and among
\* the accounts tied for the least, to the first in the account list.
C7_LeastLoadedFirstInList ==
    run.called =>
        \A k \in 1..Len(run.scheduledItems) :
            LET item == run.scheduledItems[k]
                load == LoadBefore(k, item.accountId, ItemDay(k))
            IN /\ \E i \in 1..Len(run.allAccounts) : run.allAccounts[i] = item.accountId
               /\ AccountFree(k, item.accountId, ItemDay(k), item.bookId)
               /\ \A i \in 1..Len(run.allAccounts) :
                      AccountFree(k, run.allAccounts[i], ItemDay(k), item.bookId)
                          => /\ load <= LoadBefore(k, run.allAccounts[i], ItemDay(k))
                             /\ load = LoadBefore(k, run.allAccounts[i], ItemDay(k))
                                    => ListPosition(item.accountId) <= i

\* C7 happens: one item went to a less loaded account behind a free one in the
\* list, and one to the first of two equally loaded free accounts.
C7_BalancedAndTiedWitness ==
    /\ run.called
    /\ \E k \in 1..Len(run.scheduledItems) :
           \E i \in 1..Len(run.allAccounts) :
               /\ i < ListPosition(run.scheduledItems[k].accountId)
               /\ AccountFree(k, run.allAccounts[i], ItemDay(k),
                              run.scheduledItems[k].bookId)
    /\ \E k \in 1..Len(run.scheduledItems) :
           \E i \in 1..Len(run.allAccounts) :
               /\ i > ListPosition(run.scheduledItems[k].accountId)
               /\ AccountFree(k, run.allAccounts[i], ItemDay(k),
                              run.scheduledItems[k].bookId)
               /\ LoadBefore(k, run.allAccounts[i], ItemDay(k))
                      = LoadBefore(k, run.scheduledItems[k].accountId, ItemDay(k))

\* The task a returned item was made for.
TaskOfItem(item) ==
    [reviewId |-> item.reviewId, bookId |-> item.bookId,
     orderId |-> item.orderId, clientId |-> item.client]

\* The elements of seq at the positions in keep, in the order of seq.
Picked(seq, keep) ==
    LET Kept(i) == i \in keep
        positions == SelectSeq([i \in 1..Len(seq) |-> i], Kept)
    IN [n \in 1..Len(positions) |-> seq[positions[n]]]

\* The ways to read the two returned lists as a split of the input tasks that
\* keeps their order: the sets of input positions whose tasks, in input order,
\* are the tasks of scheduledItems, the other positions giving
\* unschedulableTasks.
Splits ==
    {placed \in SUBSET (1..Len(run.tasksToProcess)) :
        /\ Picked(run.tasksToProcess, placed)
               = [k \in 1..Len(run.scheduledItems) |->
                     TaskOfItem(run.scheduledItems[k])]
        /\ Picked(run.tasksToProcess, (1..Len(run.tasksToProcess)) \ placed)
               = run.unschedulableTasks}

\* The days a search from today looks at: [today, today + 365).
SearchDays == StartDay..(StartDay + MAX_SCHEDULING_ATTEMPT_DAYS - 1)

\* The number of items placed before the task at input position j, plus one.
TurnOf(placed, j) == Cardinality({i \in placed : i < j}) + 1

\* C8: a task is returned in unschedulableTasks if and only if, when it is
\* processed, no day in [today, today + 365) has an account passing the three
\* constraints; with every listed account blocked on all 365 days every task
\* is unschedulable, and a slot first free on day today + 364 is found.
C8_UnschedulableIffNoDayInBound ==
    run.called =>
        \E placed \in Splits :
            \A j \in 1..Len(run.tasksToProcess) :
                (j \notin placed)
                    <=> \A dateStr \in SearchDays :
                            ~ DayFree(TurnOf(placed, j), dateStr,
                                      run.tasksToProcess[j].bookId)

\* C8 happens: one call placed an item on day today + 364 and returned a task
\* as unschedulable.
C8_LastDayWitness ==
    /\ run.called
    /\ \E k \in 1..Len(run.scheduledItems) :
           ItemDay(k) = StartDay + MAX_SCHEDULING_ATTEMPT_DAYS - 1
    /\ Len(run.unschedulableTasks) > 0

\* C10: each input task of a generateSchedule call is in exactly one of
\* scheduledItems and unschedulableTasks, exactly once, and both lists keep
\* the input order of their tasks.
C10_TasksSplitInOrder ==
    run.called =>
        /\ Splits # {}
        /\ Len(run.scheduledItems) + Len(run.unschedulableTasks)
               = Len(run.tasksToProcess)

\* C10 happens: a call with MaxItems tasks returned some as items and the
\* others as unschedulable.
C10_BothListsWitness ==
    /\ run.called
    /\ Len(run.tasksToProcess) = MaxItems
    /\ Len(run.scheduledItems) > 0
    /\ Len(run.unschedulableTasks) > 0

\* The listed accounts, and whether no two input tasks share a book.
ListedAccounts == {run.allAccounts[i] : i \in 1..Len(run.allAccounts)}
BooksDistinct ==
    \A i, j \in 1..Len(run.tasksToProcess) :
        i < j => run.tasksToProcess[i].bookId # run.tasksToProcess[j].bookId

\* No listed account has an unavailable date.
NoUnavailability ==
    \A accountId \in ListedAccounts :
        accountId \in DOMAIN run.accountAvailability
            => run.accountAvailability[accountId] = {}

\* C11: with k >= 1 accounts, no committed purchase, no unavailability and n
\* tasks with pairwise distinct books, the i-th task (0-based) is placed on day
\* today + floor(i / (3k)) on the account at list position i mod k.
C11_RoundRobinFill ==
    (/\ run.called
     /\ Len(run.allAccounts) >= 1
     /\ Cardinality(ListedAccounts) = Len(run.allAccounts)
     /\ run.existingCommittedSchedule = << >>
     /\ NoUnavailability
     /\ BooksDistinct)
        => /\ run.unschedulableTasks = << >>
           /\ Len(run.scheduledItems) = Len(run.tasksToProcess)
           /\ \A n \in 1..Len(run.tasksToProcess) :
                  LET i == n - 1
                      k == Len(run.allAccounts)
                  IN /\ TaskOfItem(run.scheduledItems[n]) = run.tasksToProcess[n]
                     /\ ItemDay(n)
                            = StartDay
                                + (i \div (MAX_PURCHASES_PER_ACCOUNT_PER_DAY * k))
                     /\ run.scheduledItems[n].accountId
                            = run.allAccounts[(i % k) + 1]

\* C11 happens: one account and MaxItems > 3 tasks, the last on today + 1.
C11_RolloverWitness ==
    /\ run.called
    /\ Len(run.allAccounts) = 1
    /\ run.existingCommittedSchedule = << >>
    /\ NoUnavailability
    /\ BooksDistinct
    /\ Len(run.scheduledItems) > MAX_PURCHASES_PER_ACCOUNT_PER_DAY
    /\ ItemDay(Len(run.scheduledItems)) = StartDay + 1

\* The list positions of the accounts that are not listed as unavailable on
\* today and hold no committed purchase on today, each account once.
EmptyToday ==
    {i \in 1..Len(run.allAccounts) :
        /\ ~ ListedUnavailable(run.allAccounts[i], StartDay)
        /\ CommittedInRun(run.allAccounts[i], StartDay) = {}
        /\ \A j \in 1..(i - 1) : run.allAccounts[j] # run.allAccounts[i]}

\* The n-th position of EmptyToday in list order.
NthEmptyToday(n) ==
    CHOOSE i \in EmptyToday : Cardinality({j \in EmptyToday : j <= i}) = n

\* C12: when the m tasks of a run all have the same book and at least m listed
\* accounts are unblocked and empty on today, all m tasks are placed on today
\* on m pairwise different accounts, taken in list order.
C12_SameBookSpreadsOverAccounts ==
    (/\ run.called
     /\ Len(run.tasksToProcess) >= 2
     /\ \A j \in 1..Len(run.tasksToProcess) :
            run.tasksToProcess[j].bookId = run.tasksToProcess[1].bookId
     /\ Cardinality(EmptyToday) >= Len(run.tasksToProcess))
        => /\ run.unschedulableTasks = << >>
           /\ Len(run.scheduledItems) = Len(run.tasksToProcess)
           /\ \A n \in 1..Len(run.scheduledItems) :
                  /\ ItemDay(n) = StartDay
                  /\ run.scheduledItems[n].accountId
                         = run.allAccounts[NthEmptyToday(n)]
           /\ \A m, n \in 1..Len(run.scheduledItems) :
                  m < n => run.scheduledItems[m].accountId
                               # run.scheduledItems[n].accountId

\* C12 happens: two tasks for one book, two accounts empty on today, and a
\* committed purchase somewhere in the arguments.
C12_TwoAccountsWitness ==
    /\ run.called
    /\ Len(run.tasksToProcess) = 2
    /\ run.tasksToProcess[1].bookId = run.tasksToProcess[2].bookId
    /\ run.tasksToProcess[1].reviewId # run.tasksToProcess[2].reviewId
    /\ Cardinality(EmptyToday) = 2
    /\ Len(run.scheduledItems) = 2

\* The positions of the committed purchases, other than missed ones, that lie
\* on an (account, day) the availability argument lists as unavailable.
ConflictingCommitments ==
    {i \in 1..Len(run.existingCommittedSchedule) :
        /\ run.existingCommittedSchedule[i].status # "missed"
        /\ ListedUnavailable(run.existingCommittedSchedule[i].accountId,
               dateToDateString(run.existingCommittedSchedule[i].purchaseDate))}

\* The warning of the run for the (account, day) of a committed purchase.
WarnedAbout(purchase) ==
    \E w \in 1..Len(run.warnings) :
        run.warnings[w] = ConflictWarning(purchase.accountId, purchase.purchaseDate)

\* The (account, day) of a committed purchase is open to the k-th item like
\* any unblocked pair: while the account is listed and has room for the item's
\* book there, the item is placed no later than that day, and when it is
\* placed on that day, on an account that is not more loaded (nor, at equal
\* load, later in the list).
OpenToItem(k, accountId, dateStr) ==
    (/\ accountId \in ListedAccounts
     /\ StartDay <= dateStr
     /\ LoadBefore(k, accountId, dateStr) < MAX_PURCHASES_PER_ACCOUNT_PER_DAY
     /\ run.scheduledItems[k].bookId \notin BooksBefore(k, accountId, dateStr))
        => /\ ItemDay(k) <= dateStr
           /\ ItemDay(k) = dateStr
                  => LET chosen == run.scheduledItems[k].accountId
                     IN /\ LoadBefore(k, chosen, dateStr)
                               <= LoadBefore(k, accountId, dateStr)
                        /\ LoadBefore(k, chosen, dateStr)
                               = LoadBefore(k, accountId, dateStr)
                                  => ListPosition(chosen) <= ListPosition(accountId)

\* No item goes on an (account, day) that already holds 3 purchases.
ClosedWhenFull(k, accountId, dateStr) ==
    OnAccountDay(run.scheduledItems[k], accountId, dateStr)
        => LoadBefore(k, accountId, dateStr) < MAX_PURCHASES_PER_ACCOUNT_PER_DAY

Before == lastOp.before

\* The last call was markPurchaseStatus; lastOp holds its arguments.
MarkStep == lastOp.name = "markPurchaseStatus"

\* The positions of a schedule that hold a purchase with the id.
WithId(schedule, id) == {i \in 1..Len(schedule) : schedule[i].purchaseId = id}

\* The purchase the call finds: the first of the schedule with the id.
FirstWithId(schedule, id) ==
    schedule[CHOOSE i \in WithId(schedule, id) :
                 \A j \in WithId(schedule, id) : i <= j]

\* The last call marked a purchase of the given status with the new status.
MarksFrom(oldStatus, newStatus) ==
    /\ MarkStep
    /\ lastOp.status = newStatus
    /\ WithId(Before.masterSchedule, lastOp.purchaseId) # {}
    /\ FirstWithId(Before.masterSchedule, lastOp.purchaseId).status = oldStatus

\* The entries the last call appended to the audit log.
Appended == SubSeq(auditLog, Len(Before.auditLog) + 1, Len(auditLog))

\* The entries of a log with the given action.
EntriesOf(log, action) == SelectSeq(log, LAMBDA e : e.action = action)

\* The last call logged that the purchase it names was flagged for rescheduling.
FlaggedInStep ==
    \E k \in 1..Len(Appended) :
        /\ Appended[k].action = "TASK_FLAGGED_FOR_RESCHEDULE"
        /\ Appended[k].details.purchaseId = lastOp.purchaseId

\* The schedule after the call holds a pending purchase with the id of the
\* call, dated today or later.
PendingAgain ==
    \E i \in WithId(masterSchedule, lastOp.purchaseId) :
        /\ masterSchedule[i].status = "pending"
        /\ masterSchedule[i].purchaseDate >= run.today

\* C14 as stated: after markPurchaseStatus(id, "missed", reason, today) on a
\* pending purchase the master schedule holds exactly one purchase with that
\* id, it is pending and dated today or later, and the audit log has a
\* TASK_FLAGGED_FOR_RESCHEDULE entry with that id.
C14_ExactlyOnePendingAfterMissed ==
    (MarksFrom("pending", "missed") =>
          /\ Cardinality(WithId(masterSchedule, lastOp.purchaseId)) = 1
          /\ PendingAgain
          /\ FlaggedInStep)

\* C14 amended: the call flags the purchase in the audit log and withdraws
\* it; when the rescheduling run finds a slot the schedule holds a pending
\* purchase with that id dated today or later and as many purchases with
\* that id as before; when it finds none the purchase is dropped and the
\* schedule holds one fewer.
C14_ReplacedOrDroppedAfterMissed ==
    (MarksFrom("pending", "missed") =>
          /\ FlaggedInStep
          /\ run.called
          /\ Len(run.scheduledItems) + Len(run.unschedulableTasks) = 1
          /\ Len(masterSchedule) =
                 Len(Before.masterSchedule) - 1 + Len(run.scheduledItems)
          /\ Cardinality(WithId(masterSchedule, lastOp.purchaseId)) =
                 Cardinality(WithId(Before.masterSchedule, lastOp.purchaseId)) - 1
                     + Len(run.scheduledItems)
          /\ (run.scheduledItems # << >> => PendingAgain))

\* The last entry of the audit log with the given action.
LastEntry(action) ==
    EntriesOf(auditLog, action)[Len(EntriesOf(auditLog, action))]

\* The last call was markPurchaseStatus, found its purchase in oldStatus and
\* set it to newStatus.
LastMarked(oldStatus, newStatus) ==
    /\ lastOp.name = "markPurchaseStatus"
    /\ lastOp.status = newStatus
    /\ EntriesOf(auditLog, "PURCHASE_STATUS_UPDATED") # << >>
    /\ LastEntry("PURCHASE_STATUS_UPDATED").details =
           [purchaseId |-> lastOp.purchaseId, oldStatus |-> oldStatus,
            newStatus |-> newStatus, bookId |-> BookOf(lastOp.purchaseId)]
    /\ auditLog[Len(auditLog)].action # "PURCHASE_STATUS_UPDATED" =>
           /\ run.called
           /\ Len(run.tasksToProcess) = 1
           /\ run.tasksToProcess[1].reviewId = lastOp.purchaseId

\* A pending purchase was marked missed and no slot was found for it: it is
\* no longer in the schedule.
C14_DroppedWitness ==
    /\ LastMarked("pending", "missed")
    /\ run.called
    /\ Len(run.unschedulableTasks) = 1
    /\ WithId(masterSchedule, lastOp.purchaseId) = {}

\* A schedule without the purchase at one position.
Without(schedule, index) ==
    [i \in 1..(Len(schedule) - 1) |->
        IF i < index THEN schedule[i] ELSE schedule[i + 1]]

\* The position of the purchase the call finds.
FirstIndexWithId(schedule, id) ==
    CHOOSE i \in WithId(schedule, id) : \A j \in WithId(schedule, id) : i <= j

\* The schedule holds one purchase only, on the first listed account, on
\* the day of the date.
SoleOnFirstAccount(schedule, date) ==
    /\ Len(schedule) = 1
    /\ allAccounts # << >>
    /\ schedule[1].accountId = allAccounts[1]
    /\ dateToDateString(schedule[1].purchaseDate) = dateToDateString(date)

\* C15: the run started by markPurchaseStatus(id, missed or delayed) on a
\* pending purchase is given the master schedule without that purchase as
\* its committed schedule and that purchase alone as its task; a sole
\* purchase on the first account on today is placed on the first account on
\* today again.
C15_BaselineWithoutWithdrawn ==
    ((MarksFrom("pending", "missed") \/ MarksFrom("pending", "delayed")) =>
          /\ run.called
          /\ run.existingCommittedSchedule =
                 Without(Before.masterSchedule,
                         FirstIndexWithId(Before.masterSchedule, lastOp.purchaseId))
          /\ Len(run.tasksToProcess) = 1
          /\ run.tasksToProcess[1].reviewId = lastOp.purchaseId
          /\ (SoleOnFirstAccount(Before.masterSchedule, run.today) =>
                 SoleOnFirstAccount(masterSchedule, run.today)))

\* C17: a call of markPurchaseStatus leaves every completed purchase of the
\* master schedule in the master schedule, as it was.
C17_CompletedIsTerminal ==
    (MarkStep =>
          \A i \in 1..Len(Before.masterSchedule) :
              Before.masterSchedule[i].status = "completed" =>
                  \E j \in 1..Len(masterSchedule) :
                      masterSchedule[j] = Before.masterSchedule[i])

\* The other of the two statuses "missed" and "delayed".
OtherOf(status) == IF status = "missed" THEN "delayed" ELSE "missed"

\* The today of the last call: the run it started has it; without a run
\* the call made no use of it.
TodayOfStep == IF run.called THEN run.today ELSE DateIn(0)

\* What the last call would have left had it named the other of
\* "missed" and "delayed", from the same state, id and today.
WithOtherStatus ==
    markPurchaseStatusFrom(Before.masterSchedule, Before.auditLog,
        lastOp.purchaseId, OtherOf(lastOp.status), TodayOfStep,
        Before.allAccounts, Before.accountAvailability)

\* Two audit entries that differ at most in the status or reason they record.
SameButStatusText(e, f) ==
    /\ e.action = f.action
    /\ DOMAIN e.details = DOMAIN f.details
    /\ \A field \in DOMAIN e.details \ {"newStatus", "status", "reason"} :
           e.details[field] = f.details[field]

\* C16: a call of markPurchaseStatus with "missed" or "delayed" leaves the
\* availability as it was and the master schedule that the call with the
\* other of the two statuses leaves from the same state, id and today; the
\* two audit logs differ only in the status and reason texts.
C16_DelayedAsMissed ==
    ((MarkStep /\ lastOp.status \in {"missed", "delayed"}) =>
          /\ masterSchedule = WithOtherStatus.masterSchedule
          /\ accountAvailability = Before.accountAvailability
          /\ Len(auditLog) = Len(WithOtherStatus.auditLog)
          /\ \A k \in 1..Len(auditLog) :
                 SameButStatusText(auditLog[k], WithOtherStatus.auditLog[k]))

\* A pending purchase was marked delayed and placed again.
C16_DelayedRescheduledWitness ==
    /\ LastMarked("pending", "delayed")
    /\ run.called
    /\ Len(run.scheduledItems) = 1
    /\ WithId(masterSchedule, lastOp.purchaseId) # {}

\* C18: markPurchaseStatus(id, "completed") on a pending purchase sets the
\* status of that purchase and changes nothing else of the master schedule,
\* starts no scheduler run, and appends one audit entry only, a
\* PURCHASE_STATUS_UPDATED one.
C18_CompletedChangesStatusOnly ==
    (MarksFrom("pending", "completed") =>
          /\ Len(masterSchedule) = Len(Before.masterSchedule)
          /\ \A i \in 1..Len(Before.masterSchedule) :
                 masterSchedule[i] =
                     IF i = FirstIndexWithId(Before.masterSchedule, lastOp.purchaseId)
                     THEN [Before.masterSchedule[i] EXCEPT !.status = "completed"]
                     ELSE Before.masterSchedule[i]
          /\ ~ run.called
          /\ Len(Appended) = 1
          /\ Appended[1].action = "PURCHASE_STATUS_UPDATED")

\* A pending purchase was marked completed in a schedule that holds other
\* purchases too.
C18_CompletedAmongOthersWitness ==
    /\ LastMarked("pending", "completed")
    /\ Len(masterSchedule) > 1
    /\ \E i \in 1..Len(masterSchedule) : masterSchedule[i].status = "pending"

\* C19: markPurchaseStatus with an id that no purchase of the master
\* schedule has throws, leaves master schedule and availability as they
\* were, and appends one audit entry only, a MARK_STATUS_FAIL one.
C19_UnknownPurchaseFails ==
    ((MarkStep /\ WithId(Before.masterSchedule, lastOp.purchaseId) = {}) =>
          /\ lastOp.threw
          /\ masterSchedule = Before.masterSchedule
          /\ accountAvailability = Before.accountAvailability
          /\ ~ run.called
          /\ Len(Appended) = 1
          /\ Appended[1].action = "MARK_STATUS_FAIL")

\* markPurchaseStatus failed on a manager that holds purchases.
C19_FailedMarkWitness ==
    /\ lastOp.name = "markPurchaseStatus"
    /\ lastOp.threw
    /\ WithId(masterSchedule, lastOp.purchaseId) = {}
    /\ masterSchedule # << >>
    /\ auditLog[Len(auditLog)].action = "MARK_STATUS_FAIL"

\* The last call was setAccountAvailability; lastOp holds its account.
SetAvailabilityStep == lastOp.name = "setAccountAvailability"

\* The account is in the account list.
Listed(accounts, accountId) ==
    \E i \in 1..Len(accounts) : accounts[i] = accountId

\* C20: setAccountAvailability with an account that is not in the account
\* list throws, leaves availability and master schedule as they were, and
\* appends one audit entry only, a SET_AVAILABILITY_FAIL one.
C20_UnknownAccountFails ==
    ((SetAvailabilityStep /\ ~ Listed(Before.allAccounts, lastOp.accountId)) =>
          /\ lastOp.threw
          /\ accountAvailability = Before.accountAvailability
          /\ masterSchedule = Before.masterSchedule
          /\ ~ run.called
          /\ Len(Appended) = 1
          /\ Appended[1].action = "SET_AVAILABILITY_FAIL")

\* setAccountAvailability failed on a manager that holds accounts and
\* purchases.
C20_FailedSetWitness ==
    /\ lastOp.name = "setAccountAvailability"
    /\ lastOp.threw
    /\ ~ Listed(allAccounts, lastOp.accountId)
    /\ allAccounts # << >>
    /\ masterSchedule # << >>
    /\ auditLog[Len(auditLog)].action = "SET_AVAILABILITY_FAIL"

\* C21: markPurchaseStatus(id, s) on a purchase whose status is s already
\* leaves master schedule, availability and audit log as they were, and
\* starts no scheduler run.
C21_SameStatusIsNoOp ==
    \A s \in Statuses :
        MarksFrom(s, s) =>
            /\ ~ lastOp.threw
            /\ masterSchedule = Before.masterSchedule
            /\ accountAvailability = Before.accountAvailability
            /\ auditLog = Before.auditLog
            /\ ~ run.called

\* A completed purchase was marked completed again, in a schedule that
\* holds a pending purchase too.
C21_CompletedAgainWitness ==
    /\ MarksFrom("completed", "completed")
    /\ \E i \in 1..Len(masterSchedule) : masterSchedule[i].status = "pending"

\* The calendar days of a set of Dates.
DaysOf(dates) == {d \div TicksPerDay : d \in dates}

\* The calendar days stored as unavailable for an account.
StoredDays(availability, accountId) ==
    DaysOf(UnavailableDatesOf(availability, accountId))

\* The last call was a setAccountAvailability that did not throw.
SetAvailabilityDone == SetAvailabilityStep /\ ~ lastOp.threw

EarliestOf(days) == CHOOSE d \in days : \A e \in days : d <= e

\* C23: with two days stored as unavailable for an account, a call of
\* setAccountAvailability for it with an empty unavailable list and no
\* available list takes the first of the two days out of the stored days
\* and keeps the second.
C23_EmptyCallRemovesFirstDay ==
    (/\ SetAvailabilityDone
     /\ lastOp.unavailableDates = {}
     /\ lastOp.availableDates = {}
     /\ Cardinality(StoredDays(Before.accountAvailability, lastOp.accountId)) = 2)
        => StoredDays(accountAvailability, lastOp.accountId) =
               StoredDays(Before.accountAvailability, lastOp.accountId)
                   \ {EarliestOf(StoredDays(Before.accountAvailability,
                                            lastOp.accountId))}

\* The days the last call added to the stored days of its account.
NewlyBlockedDays ==
    StoredDays(accountAvailability, lastOp.accountId)
        \ StoredDays(Before.accountAvailability, lastOp.accountId)

\* A purchase the last call of setAccountAvailability has to withdraw: a
\* pending one of its account on a day the call added.
OnNewlyBlockedDay(purchase) ==
    /\ purchase.status = "pending"
    /\ purchase.accountId = lastOp.accountId
    /\ (purchase.purchaseDate \div TicksPerDay) \in NewlyBlockedDays

\* The purchase ids the last call flagged for rescheduling, in log order.
FlaggedIds ==
    [k \in 1..Len(EntriesOf(Appended, "TASK_FLAGGED_FOR_RESCHEDULE")) |->
        EntriesOf(Appended, "TASK_FLAGGED_FOR_RESCHEDULE")[k].details.purchaseId]

\* The purchase ids of a schedule, in schedule order.
IdsOf(schedule) == [i \in 1..Len(schedule) |-> schedule[i].purchaseId]

\* C24: setAccountAvailability withdraws the pending purchases of its
\* account on the days the call added to the stored days, and no other
\* purchase: every other purchase is in the master schedule afterwards as
\* it was.
C24_WithdrawsNewlyBlockedOnly ==
    SetAvailabilityDone =>
        /\ FlaggedIds = IdsOf(SelectSeq(Before.masterSchedule, OnNewlyBlockedDay))
        /\ \A i \in 1..Len(Before.masterSchedule) :
               ~ OnNewlyBlockedDay(Before.masterSchedule[i]) =>
                   \E j \in 1..Len(masterSchedule) :
                       masterSchedule[j] = Before.masterSchedule[i]

\* C25: a call of setAccountAvailability that leaves the stored days of its
\* account as they were withdraws no purchase, starts no scheduler run and
\* appends no audit entry.
C25_SameBlocklistIsSilent ==
    (/\ SetAvailabilityDone
     /\ StoredDays(accountAvailability, lastOp.accountId) =
            StoredDays(Before.accountAvailability, lastOp.accountId))
        => /\ masterSchedule = Before.masterSchedule
           /\ ~ run.called
           /\ auditLog = Before.auditLog

\* The k-th item of the last run re-creates a purchase that was pending on
\* the account of the call on the day of today, which the call left blocked.
WithdrawnFromToday(k) ==
    /\ StartDay \in StoredDays(accountAvailability, lastOp.accountId)
    /\ \E i \in 1..Len(Before.masterSchedule) :
           /\ Before.masterSchedule[i].purchaseId = run.scheduledItems[k].reviewId
           /\ Before.masterSchedule[i].status = "pending"
           /\ OnAccountDay(Before.masterSchedule[i], lastOp.accountId, StartDay)

\* The positions in the account list of the other accounts that, when the
\* k-th item is placed, are unblocked on the day of today, hold fewer than 3
\* purchases there and do not hold the item's book there.
OtherFreeToday(k) ==
    {i \in 1..Len(allAccounts) :
        /\ allAccounts[i] # lastOp.accountId
        /\ StartDay \notin StoredDays(accountAvailability, allAccounts[i])
        /\ LoadBefore(k, allAccounts[i], StartDay)
               < MAX_PURCHASES_PER_ACCOUNT_PER_DAY
        /\ run.scheduledItems[k].bookId
               \notin BooksBefore(k, allAccounts[i], StartDay)}

\* The first position among those of least load on the day of today.
LeastLoadedToday(k, positions) ==
    CHOOSE i \in positions :
        \A j \in positions :
            \/ LoadBefore(k, allAccounts[i], StartDay)
                   < LoadBefore(k, allAccounts[j], StartDay)
            \/ /\ LoadBefore(k, allAccounts[i], StartDay)
                      = LoadBefore(k, allAccounts[j], StartDay)
               /\ i <= j

\* C26: a pending purchase withdrawn from today because its account was
\* blocked on today is re-created on today on the least loaded other listed
\* account that is unblocked on today, holds fewer than 3 purchases there
\* and does not hold its book there (the first in the list on ties), when
\* there is such an account; the purchases of the blocked account on days
\* not blocked stay as they were.
C26_MovedToLeastLoadedOtherAccount ==
    (SetAvailabilityDone /\ run.called) =>
        /\ \A k \in 1..Len(run.scheduledItems) :
               (WithdrawnFromToday(k) /\ OtherFreeToday(k) # {}) =>
                   /\ ItemDay(k) = StartDay
                   /\ run.scheduledItems[k].accountId =
                          allAccounts[LeastLoadedToday(k, OtherFreeToday(k))]
        /\ \A i \in 1..Len(Before.masterSchedule) :
               (/\ Before.masterSchedule[i].accountId = lastOp.accountId
                /\ (Before.masterSchedule[i].purchaseDate \div TicksPerDay)
                       \notin StoredDays(accountAvailability, lastOp.accountId))
                   => \E j \in 1..Len(masterSchedule) :
                          masterSchedule[j] = Before.masterSchedule[i]

\* The schedule holds a purchase for the review request, of the status, on
\* the account and the day.
HoldsOn(schedule, reviewId, accountId, dateStr, status) ==
    \E i \in 1..Len(schedule) :
        /\ schedule[i].reviewId = reviewId
        /\ schedule[i].status = status
        /\ OnAccountDay(schedule[i], accountId, dateStr)

\* Two accounts, no day blocked, and three pending purchases of distinct
\* books on the day: requests 1 and 3 on the first account, request 2 on the
\* second.
ThreeOnTwoAccounts(state, dateStr) ==
    /\ Len(state.allAccounts) = 2
    /\ state.allAccounts[1] # state.allAccounts[2]
    /\ \A a \in DOMAIN state.accountAvailability :
           state.accountAvailability[a] = {}
    /\ Len(state.masterSchedule) = 3
    /\ HoldsOn(state.masterSchedule, 1, state.allAccounts[1], dateStr, "pending")
    /\ HoldsOn(state.masterSchedule, 2, state.allAccounts[2], dateStr, "pending")
    /\ HoldsOn(state.masterSchedule, 3, state.allAccounts[1], dateStr, "pending")

\* C27: from that state, blocking the first account on the day, with the
\* clock on that day, ends with request 1 on the second account on the day,
\* request 2 where it was, request 3 on the first account on the next day,
\* and two TASK_FLAGGED_FOR_RESCHEDULE entries.
C27_ThirdMovesToNextDay ==
    (/\ SetAvailabilityDone
     /\ run.called
     /\ ThreeOnTwoAccounts(Before, StartDay)
     /\ lastOp.accountId = allAccounts[1]
     /\ DaysOf(lastOp.unavailableDates) = {StartDay}
     /\ lastOp.availableDates = {})
        => /\ Len(masterSchedule) = 3
           /\ HoldsOn(masterSchedule, 1, allAccounts[2], StartDay, "pending")
           /\ HoldsOn(masterSchedule, 2, allAccounts[2], StartDay, "pending")
           /\ HoldsOn(masterSchedule, 3, allAccounts[1], StartDay + 1, "pending")
           /\ Len(FlaggedIds) = 2

\* How often a schedule holds a purchase.
TimesIn(schedule, purchase) ==
    Cardinality({i \in 1..Len(schedule) : schedule[i] = purchase})

\* The purchases of a schedule.
PurchasesOf(schedule) == {schedule[i] : i \in 1..Len(schedule)}

\* The last call was addNewOrders.
AddOrdersStep == lastOp.name = "addNewOrders"

\* C28: after addNewOrders every purchase of the master schedule before the
\* call is in it with the same account, purchase date, review date and
\* status, and what the call added is what its run scheduled, nothing else.
C28_AddOrdersKeepsExisting ==
    AddOrdersStep =>
        /\ Len(masterSchedule) =
               Len(Before.masterSchedule) + Len(run.scheduledItems)
        /\ \A purchase \in PurchasesOf(masterSchedule)
                             \cup PurchasesOf(Before.masterSchedule) :
               TimesIn(masterSchedule, purchase) =
                   TimesIn(Before.masterSchedule, purchase)
                       + TimesIn(run.scheduledItems, purchase)

\* Orders were added to a schedule that held a completed and a pending
\* purchase, and a new purchase went on the day of an existing one.
C28_AddedBesideExistingWitness ==
    /\ AddOrdersStep
    /\ \E i, j \in 1..Len(Before.masterSchedule) :
           /\ Before.masterSchedule[i].status = "completed"
           /\ Before.masterSchedule[j].status = "pending"
    /\ \E k \in 1..Len(run.scheduledItems) :
           \E i \in 1..Len(Before.masterSchedule) :
               dateToDateString(run.scheduledItems[k].purchaseDate) =
                   dateToDateString(Before.masterSchedule[i].purchaseDate)

\* The last call started a run that left tasks without a slot.
LeftUnschedulable == run.called /\ run.unschedulableTasks # << >>

\* C29: when the run of addNewOrders, markPurchaseStatus or
\* setAccountAvailability leaves tasks unschedulable, the call does not
\* throw, appends one UNSCHEDULABLE_TASKS_ENCOUNTERED entry that lists
\* them, and the master schedule is the committed schedule given to the run
\* and the purchases the run scheduled: no purchase for the unschedulable
\* tasks, one for every scheduled one.
C29_UnschedulableIsLoggedNotRaised ==
    LeftUnschedulable =>
        /\ lastOp.name \in {"addNewOrders", "markPurchaseStatus",
                             "setAccountAvailability"}
        /\ ~ lastOp.threw
        /\ Len(EntriesOf(Appended, "UNSCHEDULABLE_TASKS_ENCOUNTERED")) = 1
        /\ EntriesOf(Appended, "UNSCHEDULABLE_TASKS_ENCOUNTERED")[1].details =
               [count |-> Len(run.unschedulableTasks),
                tasks |-> [i \in 1..Len(run.unschedulableTasks) |->
                    [reviewId |-> run.unschedulableTasks[i].reviewId,
                     bookId |-> run.unschedulableTasks[i].bookId]]]
        /\ Len(masterSchedule) =
               Len(run.existingCommittedSchedule) + Len(run.scheduledItems)
        /\ \A purchase \in PurchasesOf(masterSchedule) :
               TimesIn(masterSchedule, purchase) =
                   TimesIn(run.existingCommittedSchedule, purchase)
                       + TimesIn(run.scheduledItems, purchase)
        /\ Len(run.scheduledItems) + Len(run.unschedulableTasks) =
               Len(run.tasksToProcess)

\* One run of addNewOrders scheduled a task and left another unschedulable.
C29_MixedRunWitness ==
    /\ LeftUnschedulable
    /\ AddOrdersStep
    /\ run.scheduledItems # << >>
    /\ \E i \in 1..Len(masterSchedule) :
           masterSchedule[i] = run.scheduledItems[1]

\* C30: the audit log is append-only. Whatever call was made last, the
\* entries the call found are still there, unchanged and at the same
\* positions, the log is at least as long as it was, and its first entry
\* is still the INIT entry the constructor wrote.
C30_AuditLogAppendOnly ==
    /\ Len(auditLog) >= Len(Before.auditLog)
    /\ SubSeq(auditLog, 1, Len(Before.auditLog)) = Before.auditLog
    /\ Len(auditLog) >= 1
    /\ auditLog[1].action = "INIT"
    /\ auditLog[1].reason = "System initialized"

\* A call appended several entries to a log that earlier calls had already
\* extended beyond the INIT entry.
C30_GrownLogWitness ==
    /\ lastOp.name # "constructor"
    /\ Len(Before.auditLog) > 1
    /\ Len(Appended) > 1

\* The call changed the master schedule (a purchase added, removed or altered,
\* its status included), the stored availability or the account list.
ChangedState ==
    \/ masterSchedule # Before.masterSchedule
    \/ accountAvailability # Before.accountAvailability
    \/ allAccounts # Before.allAccounts

PositionsOf(action) == {k \in 1..Len(Appended) : Appended[k].action = action}

\* The last call withdrew purchases for rescheduling: it was markPurchaseStatus
\* or setAccountAvailability and it resubmitted tasks to the scheduler.
WithdrewForReschedule ==
    /\ lastOp.name \in {"markPurchaseStatus", "setAccountAvailability"}
    /\ run.called

\* C32: a call appends exactly one TASK_FLAGGED_FOR_RESCHEDULE entry for every
\* purchase it withdraws for rescheduling (as many entries as purchases
\* withdrawn, naming the resubmitted tasks in order, and none when nothing is
\* withdrawn), and all of them precede the PROCESSING_TASKS_START entry of
\* the one resubmission the call makes.
C32_EachWithdrawalFlaggedBeforeResubmission ==
    /\ ~ WithdrewForReschedule => PositionsOf("TASK_FLAGGED_FOR_RESCHEDULE") = {}
    /\ WithdrewForReschedule =>
          /\ Len(EntriesOf(Appended, "TASK_FLAGGED_FOR_RESCHEDULE")) =
                 Len(Before.masterSchedule) - Len(run.existingCommittedSchedule)
          /\ Len(EntriesOf(Appended, "TASK_FLAGGED_FOR_RESCHEDULE")) =
                 Len(run.tasksToProcess)
          /\ \A i \in 1..Len(run.tasksToProcess) :
                 EntriesOf(Appended, "TASK_FLAGGED_FOR_RESCHEDULE")[i].details.purchaseId
                     = run.tasksToProcess[i].reviewId
          /\ Cardinality(PositionsOf("PROCESSING_TASKS_START")) = 1
          /\ \A f \in PositionsOf("TASK_FLAGGED_FOR_RESCHEDULE"),
                s \in PositionsOf("PROCESSING_TASKS_START") : f < s

\* One call of setAccountAvailability withdrew two purchases.
C32_TwoWithdrawnWitness ==
    /\ SetAvailabilityStep
    /\ run.called
    /\ Len(run.tasksToProcess) = 2
    /\ Cardinality(PositionsOf("TASK_FLAGGED_FOR_RESCHEDULE")) = 2

\* C33: the master schedule is keyed by task id: no two purchases of it have
\* the same purchaseId or the same reviewId, whatever calls were made,
\* addNewOrders with an already scheduled reviewId included.
C33_NoTwoPurchasesShareAnId ==
    \A i, j \in 1..Len(masterSchedule) :
        i # j =>
            /\ masterSchedule[i].purchaseId # masterSchedule[j].purchaseId
            /\ masterSchedule[i].reviewId # masterSchedule[j].reviewId

\* The purchases the last call withdrew for rescheduling, in schedule order:
\* the purchase markPurchaseStatus found, or the pending purchases of the
\* account that setAccountAvailability found on a day now stored as blocked.
OnStoredBlockedDay(p) ==
    /\ p.accountId = lastOp.accountId
    /\ p.status = "pending"
    /\ p.purchaseDate \div TicksPerDay \in
           StoredDays(accountAvailability, lastOp.accountId)
WithdrawnPurchases ==
    IF MarkStep
    THEN << FirstWithId(Before.masterSchedule, lastOp.purchaseId) >>
    ELSE SelectSeq(Before.masterSchedule, OnStoredBlockedDay)

\* Purchase q is purchase p rescheduled: the task identity of p, pending.
SameTask(p, q) ==
    /\ q.reviewId = p.reviewId
    /\ q.purchaseId = p.purchaseId
    /\ q.bookId = p.bookId
    /\ q.orderId = p.orderId
    /\ q.client = p.client
    /\ q.status = "pending"

\* C34: every purchase a rescheduling run creates carries the reviewId,
\* purchaseId, bookId, orderId and client of a purchase the call withdrew,
\* with status pending, and it is in the master schedule afterwards; the run
\* creates no more purchases than were withdrawn.
C34_RescheduledKeepsTaskIdentity ==
    WithdrewForReschedule =>
        /\ Len(run.scheduledItems) <= Len(WithdrawnPurchases)
        /\ \A k \in 1..Len(run.scheduledItems) :
               /\ \E i \in 1..Len(WithdrawnPurchases) :
                      SameTask(WithdrawnPurchases[i], run.scheduledItems[k])
               /\ \E j \in 1..Len(masterSchedule) :
                      masterSchedule[j] = run.scheduledItems[k]

\* A withdrawn purchase came back on another account or another day.
C34_MovedPurchaseWitness ==
    /\ WithdrewForReschedule
    /\ \E k \in 1..Len(run.scheduledItems), i \in 1..Len(WithdrawnPurchases) :
           /\ SameTask(WithdrawnPurchases[i], run.scheduledItems[k])
           /\ \/ run.scheduledItems[k].accountId # WithdrawnPurchases[i].accountId
              \/ run.scheduledItems[k].purchaseDate # WithdrawnPurchases[i].purchaseDate

RemainingAfterWithdrawal ==
    IF MarkStep
    THEN Without(Before.masterSchedule,
                 FirstIndexWithId(Before.masterSchedule, lastOp.purchaseId))
    ELSE SelectSeq(Before.masterSchedule, LAMBDA p : ~ OnStoredBlockedDay(p))

\* The master schedule is the committed schedule given to the run together
\* with the purchases the run created.
MergedFromRun ==
    /\ Len(masterSchedule) =
           Len(run.existingCommittedSchedule) + Len(run.scheduledItems)
    /\ \A purchase \in PurchasesOf(masterSchedule) :
           TimesIn(masterSchedule, purchase) =
               TimesIn(run.existingCommittedSchedule, purchase)
                   + TimesIn(run.scheduledItems, purchase)

\* C36 as stated: every change to the master schedule happens inside
\* processTasks.  A call that does not reach processTasks leaves the master
\* schedule as it found it, and a call that does hands it to processTasks as
\* it found it (its pending and completed purchases are the committed
\* schedule of the run).
C36_ChangesOnlyInsideProcessTasks ==
    /\ ~ run.called => masterSchedule = Before.masterSchedule
    /\ run.called =>
           run.existingCommittedSchedule = committedSchedule(Before.masterSchedule)

\* C36 amended: purchases are added to the master schedule only inside
\* processTasks.  Outside it a call changes the master schedule in two ways
\* only: markPurchaseStatus overwrites the status of the purchase it finds,
\* and markPurchaseStatus (missed, delayed) and setAccountAvailability take
\* out the purchases they withdraw before they call processTasks.
C36_OnlyProcessTasksAddsPurchases ==
    /\ (~ run.called /\ masterSchedule # Before.masterSchedule) =>
           /\ MarkStep
           /\ WithId(Before.masterSchedule, lastOp.purchaseId) # {}
           /\ masterSchedule =
                  [Before.masterSchedule EXCEPT
                      ![FirstIndexWithId(Before.masterSchedule, lastOp.purchaseId)].status
                          = lastOp.status]
    /\ (run.called /\ AddOrdersStep) =>
           run.existingCommittedSchedule = committedSchedule(Before.masterSchedule)
    /\ WithdrewForReschedule =>
           run.existingCommittedSchedule = committedSchedule(RemainingAfterWithdrawal)
    /\ run.called => MergedFromRun

\* markPurchaseStatus took a purchase out of a schedule of several purchases
\* and the run placed it again.
C36_SplicedThenMergedWitness ==
    /\ MarksFrom("pending", "missed")
    /\ run.called
    /\ Len(Before.masterSchedule) >= 2
    /\ Len(run.existingCommittedSchedule) = Len(Before.masterSchedule) - 1
    /\ Len(run.scheduledItems) = 1

\* The account is eligible for the k-th item on the day by what the run was
\* given for this very account and day: the day is not listed as unavailable
\* for the account, the account holds fewer than 3 purchases on it and not
\* the item's book.
EligibleOnDay(k, accountId, dateStr) ==
    /\ ~ ListedUnavailable(accountId, dateStr)
    /\ LoadBefore(k, accountId, dateStr) < MAX_PURCHASES_PER_ACCOUNT_PER_DAY
    /\ run.scheduledItems[k].bookId \notin BooksBefore(k, accountId, dateStr)

\* C37: unavailability is per exact (account, day).  Whatever other days are
\* listed for an account and whatever is listed for other accounts, no item
\* passes a day on which a listed account is eligible, and on its day no item
\* goes to a more loaded account than an eligible one.
C37_BlockedOnExactAccountDayOnly ==
    run.called =>
        \A k \in 1..Len(run.scheduledItems), i \in 1..Len(run.allAccounts) :
            /\ \A dateStr \in StartDay..(ItemDay(k) - 1) :
                   ~ EligibleOnDay(k, run.allAccounts[i], dateStr)
            /\ EligibleOnDay(k, run.allAccounts[i], ItemDay(k)) =>
                   LoadBefore(k, run.scheduledItems[k].accountId, ItemDay(k))
                       <= LoadBefore(k, run.allAccounts[i], ItemDay(k))

\* One account is blocked on the start day and another on the day after: an
\* item went to the second account on the start day.
C37_CrossBlockedWitness ==
    /\ run.called
    /\ \E k \in 1..Len(run.scheduledItems), i \in 1..Len(run.allAccounts) :
           /\ run.allAccounts[i] # run.scheduledItems[k].accountId
           /\ ListedUnavailable(run.allAccounts[i], StartDay)
           /\ ~ ListedUnavailable(run.allAccounts[i], StartDay + 1)
           /\ ListedUnavailable(run.scheduledItems[k].accountId, StartDay + 1)
           /\ ItemDay(k) = StartDay

\* The entries that open and close a processTasks run, in log order.
RunMarks ==
    SelectSeq(auditLog,
        LAMBDA e : e.action \in {"PROCESSING_TASKS_START", "PROCESSING_TASKS_END"})

\* The actions logged for the outcome of a run.
RunActions ==
    {"SCHEDULER_WARNING", "TASKS_SCHEDULED", "UNSCHEDULABLE_TASKS_ENCOUNTERED"}

\* No run is opened or closed at the positions from..to of the audit log.
NoMarkIn(from, to) ==
    \A q \in from..to :
        auditLog[q].action \notin {"PROCESSING_TASKS_START", "PROCESSING_TASKS_END"}

\* Position p of the audit log lies between the START of a run and its END.
InsideRun(p) ==
    \E s \in 1..(p - 1) :
        /\ auditLog[s].action = "PROCESSING_TASKS_START"
        /\ NoMarkIn(s + 1, p)

\* The place of an action in the order of one run.
RankInRun(action) ==
    IF action = "SCHEDULER_WARNING" THEN 1
    ELSE IF action = "TASKS_SCHEDULED" THEN 2
    ELSE 3

C39_OnlyPendingOrCompleted ==
    \A i \in 1..Len(masterSchedule) :
        masterSchedule[i].status \in {"pending", "completed"}

\* A purchase was marked delayed next to a completed one: it is back as a
\* pending purchase.
C39_DelayedBackPendingWitness ==
    /\ MarksFrom("pending", "delayed")
    /\ \E i \in 1..Len(masterSchedule) : masterSchedule[i].status = "completed"
    /\ \E i \in WithId(masterSchedule, lastOp.purchaseId) :
           masterSchedule[i].status = "pending"

\* The task ids an audit entry reports as scheduled or as unschedulable.
MentionedIn(e) ==
    IF e.action = "TASKS_SCHEDULED"
    THEN {e.details.items[i].reviewId : i \in 1..Len(e.details.items)}
    ELSE IF e.action = "UNSCHEDULABLE_TASKS_ENCOUNTERED"
    THEN {e.details.tasks[i].reviewId : i \in 1..Len(e.details.tasks)}
    ELSE {}

\* The positions of the audit log that report an outcome for the task id,
\* and the last of them: the outcome of the run that last tried to place it.
OutcomesOf(id) == {p \in 1..Len(auditLog) : id \in MentionedIn(auditLog[p])}
LastOutcomeOf(id) == CHOOSE p \in OutcomesOf(id) : \A q \in OutcomesOf(id) : q <= p

\* The task ids some run has tried to place so far.
TriedIds == UNION {MentionedIn(auditLog[p]) : p \in 1..Len(auditLog)}

\* The task id has no purchase in the master schedule.
NotScheduled(id) == \A i \in 1..Len(masterSchedule) : masterSchedule[i].reviewId # id

====
